---------------------------- MODULE Spec2Model ----------------------------
(***************************************************************************)
(* The task mutation and audit-history subsystem of the Go backend:       *)
(* the in-memory DataStore (go-backend/server.go) and the PostgresStore    *)
(* (src/unnamed/part_008), both behind the Store interface.               *)
(*                                                                         *)
(* One behaviour runs one backend, chosen in Init.  The in-memory store    *)
(* holds its mutex for a whole operation, so each operation is one step.   *)
(* The PostgreSQL store runs each operation as a sequence of SQL           *)
(* statements; every statement is one step of a client process, under      *)
(* READ COMMITTED isolation: rows written by a transaction are kept in     *)
(* the transaction (tx[p]) until its commit step copies them into the      *)
(* tables, sequences advance at the INSERT, and SELECT ... FOR UPDATE      *)
(* waits for the row lock.                                                 *)
(*                                                                         *)
(* Strings that the code only compares are TLA+ strings; strings the code  *)
(* takes apart (the actor, the userId filter) are sequences of             *)
(* characters.  A nil pointer is <<>>, a pointer to x is <<x>>.            *)
(* time.Now() reads a wall clock that never runs backwards.                *)
(***************************************************************************)
EXTENDS Integers, Sequences, FiniteSets, TLC

VARIABLES
    backend,        \* "mem": DataStore, "pg": PostgresStore
    clock,          \* the wall clock read by time.Now() and NOW()
    users,          \* DataStore.users
    tasks,          \* DataStore.tasks
    taskHistory,    \* DataStore.taskHistory
    nextUserID,     \* DataStore.nextUserID
    nextTaskID,     \* DataStore.nextTaskID
    nextHistID,     \* DataStore.nextHistID
    memRet,         \* the DataStore call that returned in the last step, and its result
    tblUsers,       \* table users (committed rows)
    tblTasks,       \* table tasks (committed rows)
    tblTaskHistory, \* table task_history (committed rows)
    seqs,           \* the three BIGSERIAL sequences (last value handed out)
    lock,           \* row locks of table tasks: process -> id of the row it holds, 0 = none
    tx,             \* per client process: position and locals of its running call
    pgRet,          \* the PostgresStore call that returned in the last step, and its result
    heap,           \* the Go heap: the cells that slices and pointers refer to
    dataStore,      \* the DataStore's fields as the slices and pointers they are
    held,           \* the cells a caller was handed by DataStore calls
    buckets,        \* rate limiter: key -> its bucket (count, resetAt)
    lastCleanupAt,  \* rate limiter: when the expired buckets were last removed
    dateNow,        \* the clock of the gateway, read by Date.now()
    res,            \* rate limiter: what the last request was answered
    sent,           \* the requests that reached the rate limiter, in order
    startup,        \* NewPostgresStore: where it stands
    attempt,        \* pingWithRetry: attempt
    lastErr,        \* pingWithRetry: lastErr
    dbOpen,         \* NewPostgresStore: the connection pool is open
    pinged,         \* the PingContext calls made: how many, how many succeeded, the last outcome
    ran,            \* which of initSchema and seedInitialData have run
    startRet        \* the error NewPostgresStore returned, if it has

memVars == <<users, tasks, taskHistory, nextUserID, nextTaskID, nextHistID, memRet>>
pgVars == <<tblUsers, tblTasks, tblTaskHistory, seqs, lock, tx, pgRet>>
copyVars == <<heap, dataStore, held>>
gatewayVars == <<buckets, lastCleanupAt, dateNow, res, sent>>
startVars == <<startup, attempt, lastErr, dbOpen, pinged, ran, startRet>>
otherVars == <<copyVars, gatewayVars, startVars>>
vars == <<backend, clock, users, tasks, taskHistory, nextUserID, nextTaskID,
          nextHistID, memRet, tblUsers, tblTasks, tblTaskHistory, seqs, lock,
          tx, pgRet, otherVars>>

--------------------------------------------------------------------------
(* Bounds of the model *)

MaxClock == 1       \* the clock ticks at most this many times
MaxHist == 2        \* history entries recorded after start-up, at most

Procs == {1, 2}     \* concurrent clients of the PostgreSQL store

--------------------------------------------------------------------------
(* Values *)

Nil == <<>>
Some(x) == <<x>>

defaultActorName == <<"s", "y", "s", "t", "e", "m">>

ErrNone == "nil"
ErrTaskNotFound == "ErrTaskNotFound"
ErrInvalidTaskStatus == "ErrInvalidTaskStatus"
ErrUserDoesNotExist == "ErrUserDoesNotExist"
ErrInfra == "infrastructure error"

initialUsers ==
    << [ID |-> 1, Name |-> "John Doe", Email |-> "john@example.com", Role |-> "developer"],
       [ID |-> 2, Name |-> "Jane Smith", Email |-> "jane@example.com", Role |-> "designer"],
       [ID |-> 3, Name |-> "Bob Johnson", Email |-> "bob@example.com", Role |-> "manager"] >>

initialTasks ==
    << [ID |-> 1, Title |-> "Implement authentication", Status |-> "pending", UserID |-> 1, LastChange |-> Nil],
       [ID |-> 2, Title |-> "Design user interface", Status |-> "in-progress", UserID |-> 2, LastChange |-> Nil],
       [ID |-> 3, Title |-> "Review code changes", Status |-> "completed", UserID |-> 3, LastChange |-> Nil] >>

(* Inputs of the calls *)
TitleInputs == {"New"}
StatusInputs == {"completed", "bogus"}
UserIDInputs == {2, 4}
TaskIDInputs == {1, 4}
ActorInputs == { <<" ">>, <<" ", "q", "a">> }     \* the actor of CreateTask
UpdateActorInputs == { <<"q", "a", " ">> }        \* the actor of UpdateTask
Update(title, status, userID) == [Title |-> title, Status |-> status, UserID |-> userID]
TaskUpdate ==
    { Update(Nil, Some("pending"), Nil),
      Update(Nil, Some("completed"), Nil),
      Update(Some("New"), Some("completed"), Nil),
      Update(Some("New"), Some("bogus"), Nil),
      Update(Some("New"), Nil, Some(4)),
      Update(Nil, Nil, Some(2)) }
NewUserInput == [Name |-> "User", Email |-> "user@example.com", Role |-> "developer"]

--------------------------------------------------------------------------
(* Pure functions *)

Digit == <<"0", "1", "2", "3", "4", "5", "6", "7", "8", "9">>

RECURSIVE Itoa(_)
Itoa(n) ==
    IF n < 0 THEN "-" \o Itoa(-n)
    ELSE IF n < 10 THEN Digit[n + 1]
    ELSE Itoa(n \div 10) \o Digit[(n % 10) + 1]

IsSpace(c) == c \in {" ", "\t", "\n", "\r"}

RECURSIVE TrimLeft(_)
TrimLeft(s) == IF s # <<>> /\ IsSpace(Head(s)) THEN TrimLeft(Tail(s)) ELSE s

RECURSIVE TrimRight(_)
TrimRight(s) ==
    IF s # <<>> /\ IsSpace(s[Len(s)]) THEN TrimRight(SubSeq(s, 1, Len(s) - 1)) ELSE s

TrimSpace(s) == TrimRight(TrimLeft(s))

normalizeActor(actor) ==
    LET trimmed == TrimSpace(actor)
    IN  IF trimmed = <<>> THEN defaultActorName ELSE trimmed

isValidTaskStatus(status) == status \in {"pending", "in-progress", "completed"}

DigitVal(c) == CHOOSE d \in 0..9 : Digit[d + 1] = c
IsDigit(c) == \E d \in 0..9 : Digit[d + 1] = c

RECURSIVE DigitsVal(_)
DigitsVal(s) == IF s = <<>> THEN 0 ELSE DigitsVal(SubSeq(s, 1, Len(s) - 1)) * 10 + DigitVal(s[Len(s)])

(* strconv.Atoi on a string given as its characters: an optional sign, then
   one or more digits *)
AtoiBody(s) == IF s # <<>> /\ Head(s) \in {"+", "-"} THEN Tail(s) ELSE s
AtoiOk(s) == AtoiBody(s) # <<>> /\ \A i \in 1..Len(AtoiBody(s)) : IsDigit(AtoiBody(s)[i])
Atoi(s) == IF s # <<>> /\ Head(s) = "-" THEN -DigitsVal(AtoiBody(s)) ELSE DigitsVal(AtoiBody(s))

Max(S) == IF S = {} THEN 0 ELSE CHOOSE m \in S : \A x \in S : x <= m
Range(s) == {s[i] : i \in 1..Len(s)}

RECURSIVE Reverse(_)
Reverse(s) == IF s = <<>> THEN <<>> ELSE Append(Reverse(Tail(s)), Head(s))

TaskHistoryItem(id, taskID, changedAt, changedBy, field, fromValue, toValue) ==
    [ID |-> id, TaskID |-> taskID, ChangedAt |-> changedAt, ChangedBy |-> changedBy,
     Field |-> field, FromValue |-> fromValue, ToValue |-> toValue]


--------------------------------------------------------------------------
(* The in-memory store: DataStore *)

nextUserIDOf(us) == Max({us[i].ID : i \in 1..Len(us)}) + 1
nextTaskIDOf(ts) == Max({ts[i].ID : i \in 1..Len(ts)}) + 1

(* NewDataStore(users, tasks): every task gets an empty history slice *)
NewDataStore(us, ts) ==
    [users |-> us,
     tasks |-> ts,
     taskHistory |-> [id \in {ts[i].ID : i \in 1..Len(ts)} |-> <<>>],
     nextUserID |-> nextUserIDOf(us),
     nextTaskID |-> nextTaskIDOf(ts),
     nextHistID |-> 1]

userExistsLocked(id) == \E i \in 1..Len(users) : users[i].ID = id
taskExistsLocked(id) == \E i \in 1..Len(tasks) : tasks[i].ID = id

(* ds.taskHistory[taskID]: a missing key reads as the empty slice *)
HistoryOf(taskID) == IF taskID \in DOMAIN taskHistory THEN taskHistory[taskID] ELSE <<>>

(* the index of the first task with this id, 0 when there is none *)
FindTask(id) ==
    IF taskExistsLocked(id)
    THEN CHOOSE i \in 1..Len(tasks) :
            tasks[i].ID = id /\ \A j \in 1..(i - 1) : tasks[j].ID # id
    ELSE 0

(* The working state of one write: the task being written, its history
   slice, the entry counter, the latest change, and the entry returned by
   the last appendHistoryLocked. *)
Working(task, history, nextID) ==
    [task |-> task, history |-> history, nextHistID |-> nextID,
     latestChange |-> Nil, entry |-> Nil]

(* appendHistoryLocked putting the entry in front of the task's slice *)
appendHistoryLockedInFront(d, taskID, actor, field, fromValue, toValue, changedAt) ==
    LET entry == TaskHistoryItem(d.nextHistID, taskID, changedAt, actor, field, fromValue, toValue)
    IN  [d EXCEPT !.nextHistID = @ + 1,
                  !.history = <<entry>> \o @,
                  !.entry = Some(entry)]

appendHistoryLocked(d, taskID, actor, field, fromValue, toValue, changedAt) ==
    LET entry == TaskHistoryItem(d.nextHistID, taskID, changedAt, actor, field, fromValue, toValue)
    IN  [d EXCEPT !.nextHistID = @ + 1,
                  !.history = Append(@, entry),
                  !.entry = Some(entry)]

UpdateTitle(d, id, update, actor, now) ==
    IF update.Title = Nil THEN d
    ELSE LET d1 == IF d.task.Title # update.Title[1]
                   THEN LET a == appendHistoryLocked(d, id, actor, "title",
                                                     Some(d.task.Title), update.Title[1], now)
                        IN  [a EXCEPT !.latestChange = a.entry]
                   ELSE d
         IN  [d1 EXCEPT !.task.Title = update.Title[1]]

(* UpdateStatus recording an entry that does not become the latest change *)
UpdateStatusKeepsLatest(d, id, update, actor, now) ==
    IF update.Status = Nil THEN d
    ELSE LET d1 == IF d.task.Status # update.Status[1]
                   THEN LET a == appendHistoryLocked(d, id, actor, "status",
                                                     Some(d.task.Status), update.Status[1], now)
                        IN  IF d.latestChange = Nil THEN [a EXCEPT !.latestChange = a.entry]
                            ELSE a
                   ELSE d
         IN  [d1 EXCEPT !.task.Status = update.Status[1]]

(* UpdateStatus recording an entry without comparing the values *)
UpdateStatusUncompared(d, id, update, actor, now) ==
    IF update.Status = Nil THEN d
    ELSE LET a == appendHistoryLocked(d, id, actor, "status",
                                      Some(d.task.Status), update.Status[1], now)
         IN  [a EXCEPT !.latestChange = a.entry, !.task.Status = update.Status[1]]

UpdateStatus(d, id, update, actor, now) ==
    IF update.Status = Nil THEN d
    ELSE LET d1 == IF d.task.Status # update.Status[1]
                   THEN LET a == appendHistoryLocked(d, id, actor, "status",
                                                     Some(d.task.Status), update.Status[1], now)
                        IN  [a EXCEPT !.latestChange = a.entry]
                   ELSE d
         IN  [d1 EXCEPT !.task.Status = update.Status[1]]

UpdateUserID(d, id, update, actor, now) ==
    IF update.UserID = Nil THEN d
    ELSE LET d1 == IF d.task.UserID # update.UserID[1]
                   THEN LET a == appendHistoryLocked(d, id, actor, "userId",
                                                     Some(Itoa(d.task.UserID)),
                                                     Itoa(update.UserID[1]), now)
                        IN  [a EXCEPT !.latestChange = a.entry]
                   ELSE d
         IN  [d1 EXCEPT !.task.UserID = update.UserID[1]]

(* What the call that returned in the last step returned; NoRet after a
   step in which no call returned *)
Ret(op, id, update, actor, err, task) ==
    [op |-> op, id |-> id, update |-> update, actor |-> actor, err |-> err, task |-> task]

(* the most history entries a call with these arguments can record *)
Fields(update) ==
    (IF update.Title # Nil THEN 1 ELSE 0) + (IF update.Status # Nil THEN 1 ELSE 0)
        + (IF update.UserID # Nil THEN 1 ELSE 0)

(* the fields of the DataStore as slices and pointers, where they are not
   followed *)
NoDataStore == [users |-> 0, tasks |-> 0, taskHistory |-> <<>>, nextTaskID |-> 0, nextHistID |-> 0]

(* the rate limiter before its first request *)
NoRes == [key |-> "", status |-> 0, next |-> FALSE, retryAfter |-> Nil]
Keys == {"a", "b"}
GatewayIdle ==
    /\ buckets = [k \in Keys |-> Nil]
    /\ lastCleanupAt = 0 /\ dateNow = 0 /\ res = NoRes /\ sent = <<>>

(* NewPostgresStore has returned the store: the ping succeeded, the schema
   and the seed data are there *)
StartupDone ==
    /\ startup = "ready" /\ attempt = 1 /\ lastErr = Nil /\ dbOpen = TRUE
    /\ pinged = [n |-> 1, ok |-> 1, last |-> "ok"]
    /\ ran = {"initSchema", "seedInitialData"}
    /\ startRet = Nil

NoRet == [op |-> "none", id |-> 0, update |-> Nil, actor |-> <<>>, err |-> ErrNone, task |-> Nil]

(* CreateUser handing out the counter without moving it on *)
MemCreateUserSameID ==
    /\ backend = "mem"
    /\ \E id \in UserIDInputs : id >= nextUserID
    /\ users' = Append(users, [ID |-> nextUserID, Name |-> NewUserInput.Name,
                               Email |-> NewUserInput.Email, Role |-> NewUserInput.Role])
    /\ memRet' = Ret("CreateUser", nextUserID, Nil, <<>>, ErrNone, Nil)
    /\ UNCHANGED <<backend, clock, tasks, taskHistory, nextUserID, nextTaskID, nextHistID>>
    /\ UNCHANGED <<pgVars, otherVars>>

(* CreateUser between ds.mu.Lock() and the deferred Unlock *)
CreateUserLocked ==
    /\ \E id \in UserIDInputs : id >= nextUserID     \* only users a call can name
    /\ users' = Append(users, [ID |-> nextUserID, Name |-> NewUserInput.Name,
                               Email |-> NewUserInput.Email, Role |-> NewUserInput.Role])
    /\ nextUserID' = nextUserID + 1
    /\ memRet' = Ret("CreateUser", nextUserID, Nil, <<>>, ErrNone, Nil)
    /\ UNCHANGED <<tasks, taskHistory, nextTaskID, nextHistID>>

MemCreateUser ==
    /\ backend = "mem"
    /\ CreateUserLocked
    /\ UNCHANGED <<backend, clock>>
    /\ UNCHANGED <<pgVars, otherVars>>

(* CreateTask writing the task and its entry before it looks for the user *)
MemCreateTaskWritesFirst(title, status, userID, actor) ==
    LET args == [Title |-> Some(title), Status |-> Some(status), UserID |-> Some(userID)]
        task == [ID |-> nextTaskID, Title |-> title, Status |-> status,
                 UserID |-> userID, LastChange |-> Nil]
        d == appendHistoryLocked(Working(task, HistoryOf(task.ID), nextHistID),
                                 task.ID, normalizeActor(actor), "status", Nil, status, clock)
        created == [task EXCEPT !.LastChange = d.entry]
    IN
    /\ backend = "mem"
    /\ \E id \in TaskIDInputs : id >= nextTaskID
    /\ nextHistID <= MaxHist
    /\ IF ~isValidTaskStatus(status)
       THEN /\ memRet' = Ret("CreateTask", 0, args, actor, ErrInvalidTaskStatus, Nil)
            /\ UNCHANGED <<tasks, taskHistory, nextTaskID, nextHistID>>
       ELSE /\ nextTaskID' = nextTaskID + 1
            /\ nextHistID' = d.nextHistID
            /\ taskHistory' = (task.ID :> d.history) @@ taskHistory
            /\ tasks' = Append(tasks, created)
            /\ memRet' = IF ~userExistsLocked(userID)
                         THEN Ret("CreateTask", 0, args, actor, ErrUserDoesNotExist, Nil)
                         ELSE Ret("CreateTask", task.ID, args, actor, ErrNone, Some(created))
    /\ UNCHANGED <<backend, clock, users, nextUserID>>
    /\ UNCHANGED <<pgVars, otherVars>>

(* CreateTask between ds.mu.Lock() and the deferred Unlock *)
CreateTaskLocked(title, status, userID, actor) ==
    LET args == [Title |-> Some(title), Status |-> Some(status), UserID |-> Some(userID)]
    IN
    /\ \E id \in TaskIDInputs : id >= nextTaskID     \* only tasks a call can name
    /\ nextHistID <= MaxHist
    /\ IF ~isValidTaskStatus(status)
       THEN /\ memRet' = Ret("CreateTask", 0, args, actor, ErrInvalidTaskStatus, Nil)
            /\ UNCHANGED <<tasks, taskHistory, nextTaskID, nextHistID>>
       ELSE IF ~userExistsLocked(userID)
       THEN /\ memRet' = Ret("CreateTask", 0, args, actor, ErrUserDoesNotExist, Nil)
            /\ UNCHANGED <<tasks, taskHistory, nextTaskID, nextHistID>>
       ELSE LET task == [ID |-> nextTaskID, Title |-> title, Status |-> status,
                         UserID |-> userID, LastChange |-> Nil]
                d == appendHistoryLocked(Working(task, HistoryOf(task.ID), nextHistID),
                                         task.ID, normalizeActor(actor), "status",
                                         Nil, status, clock)
                created == [task EXCEPT !.LastChange = d.entry]
            IN  /\ nextTaskID' = nextTaskID + 1
                /\ nextHistID' = d.nextHistID
                /\ taskHistory' = (task.ID :> d.history) @@ taskHistory
                /\ tasks' = Append(tasks, created)
                /\ memRet' = Ret("CreateTask", task.ID, args, actor, ErrNone, Some(created))
    /\ UNCHANGED <<users, nextUserID>>

MemCreateTask(title, status, userID, actor) ==
    /\ backend = "mem"
    /\ CreateTaskLocked(title, status, userID, actor)
    /\ UNCHANGED <<backend, clock>>
    /\ UNCHANGED <<pgVars, otherVars>>

(* UpdateTask storing the new title before it looks for the user *)
MemUpdateTaskTitleFirst(id, update, actor) ==
    LET idx == FindTask(id)
    IN
    /\ backend = "mem"
    /\ nextHistID - 1 + Fields(update) <= MaxHist
    /\ IF idx = 0
       THEN /\ memRet' = Ret("UpdateTask", id, update, actor, ErrTaskNotFound, Nil)
            /\ UNCHANGED <<tasks, taskHistory, nextHistID>>
       ELSE IF update.Status # Nil /\ ~isValidTaskStatus(update.Status[1])
       THEN /\ memRet' = Ret("UpdateTask", id, update, actor, ErrInvalidTaskStatus, Nil)
            /\ UNCHANGED <<tasks, taskHistory, nextHistID>>
       ELSE LET normalizedActor == normalizeActor(actor)
                d0 == Working(tasks[idx], HistoryOf(id), nextHistID)
                d1 == UpdateTitle(d0, id, update, normalizedActor, clock)
                d2 == UpdateStatus(d1, id, update, normalizedActor, clock)
                d3 == UpdateUserID(d2, id, update, normalizedActor, clock)
                updated == IF d3.latestChange # Nil
                           THEN [d3.task EXCEPT !.LastChange = d3.latestChange]
                           ELSE d3.task
            IN  IF update.UserID # Nil /\ ~userExistsLocked(update.UserID[1])
                THEN /\ tasks' = [tasks EXCEPT ![idx] = d1.task]
                     /\ taskHistory' = (id :> d1.history) @@ taskHistory
                     /\ nextHistID' = d1.nextHistID
                     /\ memRet' = Ret("UpdateTask", id, update, actor, ErrUserDoesNotExist, Nil)
                ELSE /\ tasks' = [tasks EXCEPT ![idx] = updated]
                     /\ taskHistory' = (id :> d3.history) @@ taskHistory
                     /\ nextHistID' = d3.nextHistID
                     /\ memRet' = Ret("UpdateTask", id, update, actor, ErrNone, Some(updated))
    /\ UNCHANGED <<backend, clock, users, nextUserID, nextTaskID>>
    /\ UNCHANGED <<pgVars, otherVars>>

(* UpdateTask between ds.mu.Lock() and the deferred Unlock *)
UpdateTaskLocked(id, update, actor) ==
    LET idx == FindTask(id)
    IN
    /\ nextHistID - 1 + Fields(update) <= MaxHist
    /\ IF idx = 0
       THEN /\ memRet' = Ret("UpdateTask", id, update, actor, ErrTaskNotFound, Nil)
            /\ UNCHANGED <<tasks, taskHistory, nextHistID>>
       ELSE IF update.Status # Nil /\ ~isValidTaskStatus(update.Status[1])
       THEN /\ memRet' = Ret("UpdateTask", id, update, actor, ErrInvalidTaskStatus, Nil)
            /\ UNCHANGED <<tasks, taskHistory, nextHistID>>
       ELSE IF update.UserID # Nil /\ ~userExistsLocked(update.UserID[1])
       THEN /\ memRet' = Ret("UpdateTask", id, update, actor, ErrUserDoesNotExist, Nil)
            /\ UNCHANGED <<tasks, taskHistory, nextHistID>>
       ELSE LET now == clock
                normalizedActor == normalizeActor(actor)
                d0 == Working(tasks[idx], HistoryOf(id), nextHistID)
                d1 == UpdateTitle(d0, id, update, normalizedActor, now)
                d2 == UpdateStatus(d1, id, update, normalizedActor, now)
                d3 == UpdateUserID(d2, id, update, normalizedActor, now)
                updated == IF d3.latestChange # Nil
                           THEN [d3.task EXCEPT !.LastChange = d3.latestChange]
                           ELSE d3.task
            IN  /\ tasks' = [tasks EXCEPT ![idx] = updated]
                /\ taskHistory' = (id :> d3.history) @@ taskHistory
                /\ nextHistID' = d3.nextHistID
                /\ memRet' = Ret("UpdateTask", id, update, actor, ErrNone, Some(updated))
    /\ UNCHANGED <<users, nextUserID, nextTaskID>>

MemUpdateTask(id, update, actor) ==
    /\ backend = "mem"
    /\ UpdateTaskLocked(id, update, actor)
    /\ UNCHANGED <<backend, clock>>
    /\ UNCHANGED <<pgVars, otherVars>>

(* GetTasks keeping the tasks that pass either filter *)
MemGetTasksEither(status, userID) ==
    IF userID # <<>> /\ ~AtoiOk(userID) THEN <<>>
    ELSE SelectSeq(tasks, LAMBDA task :
            \/ (status # "" /\ task.Status = status)
            \/ (userID # <<>> /\ task.UserID = Atoi(userID))
            \/ (status = "" /\ userID = <<>>))

(* GetTasks(status, userID): userID is given as its characters *)
MemGetTasks(status, userID) ==
    IF userID # <<>> /\ ~AtoiOk(userID) THEN <<>>
    ELSE SelectSeq(tasks, LAMBDA task :
            /\ (status = "" \/ task.Status = status)
            /\ (userID = <<>> \/ task.UserID = Atoi(userID)))

(* GetTaskHistory(taskID): the task's slice, reversed *)
MemGetTaskHistory(taskID) ==
    IF ~taskExistsLocked(taskID)
    THEN [err |-> ErrTaskNotFound, history |-> <<>>]
    ELSE [err |-> ErrNone, history |-> Reverse(HistoryOf(taskID))]

(* Only the order of the timestamps is observable, so the clock moves on
   only from a value that some entry, stored or written by a running call,
   carries *)
ClockRead ==
    IF backend = "mem"
    THEN \E id \in DOMAIN taskHistory : \E i \in 1..Len(taskHistory[id]) :
            taskHistory[id][i].ChangedAt = clock
    ELSE \/ \E h \in tblTaskHistory : h.ChangedAt = clock
         \/ \E p \in DOMAIN tx : \E h \in tx[p].rows : h.ChangedAt = clock

Tick ==
    /\ clock < MaxClock
    /\ ClockRead
    /\ clock' = clock + 1
    /\ memRet' = NoRet
    /\ pgRet' = NoRet
    /\ UNCHANGED <<backend, users, tasks, taskHistory, nextUserID, nextTaskID, nextHistID>>
    /\ UNCHANGED <<tblUsers, tblTasks, tblTaskHistory, seqs, lock, tx>>
    /\ UNCHANGED otherVars

--------------------------------------------------------------------------
(* The PostgreSQL store: PostgresStore.  Rows are written with the field
   names of the Go structs they are scanned into. *)

EmptyDB == [users |-> {}, tasks |-> {}, history |-> {},
            seqs |-> [users |-> 0, tasks |-> 0, history |-> 0]]

TaskRow(task) == [ID |-> task.ID, Title |-> task.Title, Status |-> task.Status, UserID |-> task.UserID]

(* INSERT INTO task_history ... SELECT ... FROM tasks: one row per task, ids
   drawn from the sequence in the order the scan returns the tasks *)
SeedHistory(order, first, now) ==
    { TaskHistoryItem(first + i, order[i].ID, now, defaultActorName, "status", Nil, order[i].Status)
        : i \in 1..Len(order) }

(* seedInitialData writing its history rows whether or not the table is
   empty *)
seedInitialDataAlways(db, order, now) ==
    LET us == IF db.users = {} THEN Range(initialUsers) ELSE db.users
        su == IF db.users = {} THEN Max({Max({u.ID : u \in us}), 1}) ELSE db.seqs.users
        ts == IF db.tasks = {} THEN {TaskRow(t) : t \in Range(initialTasks)} ELSE db.tasks
        st == IF db.tasks = {} THEN Max({Max({t.ID : t \in ts}), 1}) ELSE db.seqs.tasks
    IN  [users |-> us, tasks |-> ts,
         history |-> db.history \cup SeedHistory(order, db.seqs.history, now),
         seqs |-> [users |-> su, tasks |-> st, history |-> db.seqs.history + Len(order)]]

(* seedInitialData: each table is filled only when it is empty; the users
   and tasks sequences are set to the largest id *)
seedInitialData(db, order, now) ==
    LET us == IF db.users = {} THEN Range(initialUsers) ELSE db.users
        su == IF db.users = {} THEN Max({Max({u.ID : u \in us}), 1}) ELSE db.seqs.users
        ts == IF db.tasks = {} THEN {TaskRow(t) : t \in Range(initialTasks)} ELSE db.tasks
        st == IF db.tasks = {} THEN Max({Max({t.ID : t \in ts}), 1}) ELSE db.seqs.tasks
        hs == IF db.history = {} THEN SeedHistory(order, db.seqs.history, now) ELSE db.history
        sh == IF db.history = {} THEN db.seqs.history + Len(order) ELSE db.seqs.history
    IN  [users |-> us, tasks |-> ts, history |-> hs,
         seqs |-> [users |-> su, tasks |-> st, history |-> sh]]

RECURSIVE OrderByID(_)
OrderByID(S) ==
    IF S = {} THEN <<>>
    ELSE LET low == CHOOSE r \in S : \A o \in S : r.ID <= o.ID
         IN  <<low>> \o OrderByID(S \ {low})

(* the order in which a sequential scan returns the rows of a table that was
   filled in id order and never updated: the order of insertion *)
ScanOrder(S) == OrderByID(S)

(* ORDER BY changed_at DESC, id ASC *)
NewerThenLowerID(a, b) == a.ChangedAt > b.ChangedAt \/ (a.ChangedAt = b.ChangedAt /\ a.ID < b.ID)

(* ORDER BY changed_at DESC, id DESC *)
Newer(a, b) == a.ChangedAt > b.ChangedAt \/ (a.ChangedAt = b.ChangedAt /\ a.ID > b.ID)

RECURSIVE OrderByChangedAtDescIdDesc(_)
OrderByChangedAtDescIdDesc(S) ==
    IF S = {} THEN <<>>
    ELSE LET top == CHOOSE r \in S : \A o \in S \ {r} : Newer(r, o)
         IN  <<top>> \o OrderByChangedAtDescIdDesc(S \ {top})

HistoryRowsOf(taskID) == {h \in tblTaskHistory : h.TaskID = taskID}

(* SELECT ... FROM task_history WHERE task_id = $1
   ORDER BY changed_at DESC, id DESC LIMIT 1: <<>> when there is no row *)
LatestHistory(taskID) ==
    LET rows == HistoryRowsOf(taskID)
    IN  IF rows = {} THEN Nil
        ELSE Some(CHOOSE r \in rows : \A o \in rows \ {r} : Newer(r, o))

(* the user check finding every user *)
pgUserExistsAny(id) == id = id

pgUserExists(id) == \E u \in tblUsers : u.ID = id
pgTaskExists(id) == \E t \in tblTasks : t.ID = id
pgTaskRow(id) == CHOOSE t \in tblTasks : t.ID = id

(* GetTasks: tasks LEFT JOIN LATERAL their newest history row, ORDER BY t.id *)
PgGetTasks(status, userID) ==
    IF userID # <<>> /\ ~AtoiOk(userID) THEN <<>>
    ELSE LET rows == {t \in tblTasks :
                        /\ (status = "" \/ t.Status = status)
                        /\ (userID = <<>> \/ t.UserID = Atoi(userID))}
             sorted == OrderByID(rows)
         IN  [i \in 1..Len(sorted) |->
                [ID |-> sorted[i].ID, Title |-> sorted[i].Title, Status |-> sorted[i].Status,
                 UserID |-> sorted[i].UserID, LastChange |-> LatestHistory(sorted[i].ID)]]

PgGetTaskHistory(taskID) ==
    IF ~pgTaskExists(taskID)
    THEN [err |-> ErrTaskNotFound, history |-> <<>>]
    ELSE [err |-> ErrNone, history |-> OrderByChangedAtDescIdDesc(HistoryRowsOf(taskID))]

(* A client process: pc is the statement it runs next *)
IdleTx == [pc |-> "idle", op |-> "none", id |-> 0, update |-> Nil, actor |-> <<>>,
           current |-> Nil, rows |-> {}, now |-> 0, latestChange |-> Nil, prior |-> Nil]

(* history entries a running call may still record *)
Reserved(p) ==
    IF tx[p].pc \in {"ct_insert", "ct_history"} THEN 1
    ELSE IF tx[p].pc \in {"ut_select", "ut_user", "ut_title"} THEN Fields(tx[p].update)
    ELSE IF tx[p].pc = "ut_status"
    THEN Fields([tx[p].update EXCEPT !.Title = Nil])
    ELSE IF tx[p].pc = "ut_userid"
    THEN Fields([tx[p].update EXCEPT !.Title = Nil, !.Status = Nil])
    ELSE 0

RECURSIVE Sum(_, _)
Sum(f, S) == IF S = {} THEN 0 ELSE LET x == CHOOSE x \in S : TRUE IN f[x] + Sum(f, S \ {x})

HistRoom == MaxHist - (seqs.history - Len(initialTasks)) - Sum([p \in Procs |-> Reserved(p)], Procs)
TasksStarted == seqs.tasks + Cardinality({p \in Procs : tx[p].pc = "ct_insert"})

InTx(p) == tx[p].pc \in {"ct_insert", "ct_history", "ct_commit",
                         "ut_select", "ut_user", "ut_title", "ut_status", "ut_userid", "ut_commit"}

PgReturn(p, err, task) ==
    /\ pgRet' = Ret(tx[p].op, tx[p].id, tx[p].update, tx[p].actor, err, task)
    /\ tx' = [tx EXCEPT ![p] = IdleTx]
    /\ lock' = [lock EXCEPT ![p] = 0]

PgFrame == UNCHANGED <<backend, clock>> /\ UNCHANGED <<memVars, otherVars>>

(* The clients are interchangeable: of the idle ones, the lowest starts
   the next call *)
CanStart(p) == tx[p].pc = "idle" /\ \A q \in Procs : q < p => tx[q].pc # "idle"

PgCreateUser(p) ==
    /\ backend = "pg" /\ CanStart(p)
    /\ \E id \in UserIDInputs : id > seqs.users      \* only users a call can name
    /\ seqs' = [seqs EXCEPT !.users = @ + 1]
    /\ tblUsers' = tblUsers \cup {[ID |-> seqs.users + 1, Name |-> NewUserInput.Name,
                                   Email |-> NewUserInput.Email, Role |-> NewUserInput.Role]}
    /\ pgRet' = Ret("CreateUser", seqs.users + 1, Nil, <<>>, ErrNone, Nil)
    /\ UNCHANGED <<tblTasks, tblTaskHistory, lock, tx>>
    /\ PgFrame

(* CreateTask up to its first statement: the status check, BeginTx and
   SELECT EXISTS(SELECT 1 FROM users WHERE id = $1).  BeginTx touches no
   row, so it is taken at the moment of the first statement. *)
PgCreateTaskBegin(p, title, status, userID, actor) ==
    LET args == Update(Some(title), Some(status), Some(userID))
    IN
    /\ backend = "pg" /\ CanStart(p)
    /\ \E id \in TaskIDInputs : id > TasksStarted    \* only tasks a call can name
    /\ HistRoom >= 1
    /\ IF ~isValidTaskStatus(status)
       THEN /\ pgRet' = Ret("CreateTask", 0, args, actor, ErrInvalidTaskStatus, Nil)
            /\ UNCHANGED tx
       ELSE IF ~pgUserExists(userID)
       THEN /\ pgRet' = Ret("CreateTask", 0, args, actor, ErrUserDoesNotExist, Nil)
            /\ UNCHANGED tx
       ELSE /\ tx' = [tx EXCEPT ![p] = [IdleTx EXCEPT !.pc = "ct_insert", !.op = "CreateTask",
                                                      !.update = args, !.actor = actor]]
            /\ pgRet' = NoRet
    /\ UNCHANGED <<tblUsers, tblTasks, tblTaskHistory, seqs, lock>>
    /\ PgFrame

(* the INSERT INTO tasks run on the pool instead of the transaction: the
   row is stored at once *)
PgCreateTaskInsertOutsideTx(p) ==
    /\ backend = "pg" /\ tx[p].pc = "ct_insert"
    /\ seqs' = [seqs EXCEPT !.tasks = @ + 1]
    /\ tx' = [tx EXCEPT ![p].pc = "ct_history",
                        ![p].id = seqs.tasks + 1,
                        ![p].current = Some([ID |-> seqs.tasks + 1,
                                             Title |-> tx[p].update.Title[1],
                                             Status |-> tx[p].update.Status[1],
                                             UserID |-> tx[p].update.UserID[1]])]
    /\ tblTasks' = tblTasks \cup {[ID |-> seqs.tasks + 1,
                                   Title |-> tx[p].update.Title[1],
                                   Status |-> tx[p].update.Status[1],
                                   UserID |-> tx[p].update.UserID[1]]}
    /\ pgRet' = NoRet
    /\ UNCHANGED <<tblUsers, tblTaskHistory, lock>>
    /\ PgFrame

(* INSERT INTO tasks ... RETURNING id, title, status, user_id *)
PgCreateTaskInsert(p) ==
    /\ backend = "pg" /\ tx[p].pc = "ct_insert"
    /\ seqs' = [seqs EXCEPT !.tasks = @ + 1]
    /\ tx' = [tx EXCEPT ![p].pc = "ct_history",
                        ![p].id = seqs.tasks + 1,
                        ![p].current = Some([ID |-> seqs.tasks + 1,
                                             Title |-> tx[p].update.Title[1],
                                             Status |-> tx[p].update.Status[1],
                                             UserID |-> tx[p].update.UserID[1]])]
    /\ pgRet' = NoRet
    /\ UNCHANGED <<tblUsers, tblTasks, tblTaskHistory, lock>>
    /\ PgFrame

(* changedAt := time.Now(); INSERT INTO task_history; the returned
   LastChange is built from the arguments and carries no ID *)
PgCreateTaskHistory(p) ==
    LET status == tx[p].update.Status[1]
        changedAt == clock
    IN
    /\ backend = "pg" /\ tx[p].pc = "ct_history"
    /\ seqs' = [seqs EXCEPT !.history = @ + 1]
    /\ tx' = [tx EXCEPT ![p].pc = "ct_commit",
                        ![p].now = changedAt,
                        ![p].rows = @ \cup {TaskHistoryItem(seqs.history + 1, tx[p].id, changedAt,
                                                            normalizeActor(tx[p].actor), "status",
                                                            Nil, status)},
                        ![p].latestChange = Some(TaskHistoryItem(0, tx[p].id, changedAt,
                                                                 normalizeActor(tx[p].actor),
                                                                 "status", Nil, status))]
    /\ pgRet' = NoRet
    /\ UNCHANGED <<tblUsers, tblTasks, tblTaskHistory, lock>>
    /\ PgFrame

PgCreateTaskCommit(p) ==
    /\ backend = "pg" /\ tx[p].pc = "ct_commit"
    /\ tblTasks' = tblTasks \cup {tx[p].current[1]}
    /\ tblTaskHistory' = tblTaskHistory \cup tx[p].rows
    /\ PgReturn(p, ErrNone, Some([ID |-> tx[p].current[1].ID, Title |-> tx[p].current[1].Title,
                                  Status |-> tx[p].current[1].Status,
                                  UserID |-> tx[p].current[1].UserID,
                                  LastChange |-> tx[p].latestChange]))
    /\ UNCHANGED <<tblUsers, seqs>>
    /\ PgFrame

(* NextStatement without the comparisons: an INSERT for every field the
   update names *)
NextStatementUncompared(w, from) ==
    LET u == w.update
    IN  IF from <= 1 /\ u.Title # Nil THEN "ut_title"
        ELSE IF from <= 2 /\ u.Status # Nil THEN "ut_status"
        ELSE IF from <= 3 /\ u.UserID # Nil THEN "ut_userid"
        ELSE "ut_commit"

(* The statement an UpdateTask transaction runs next, given its working
   copy w: the INSERT of the first remaining field that is present and
   differs.  The comparisons of the other fields run no statement; the
   UPDATE of the row, which always runs, is taken together with Commit. *)
NextStatement(w, from) ==
    LET u == w.update
        c == w.current[1]
    IN  IF from <= 1 /\ u.Title # Nil /\ c.Title # u.Title[1] THEN "ut_title"
        ELSE IF from <= 2 /\ u.Status # Nil /\ c.Status # u.Status[1] THEN "ut_status"
        ELSE IF from <= 3 /\ u.UserID # Nil /\ c.UserID # u.UserID[1] THEN "ut_userid"
        ELSE "ut_commit"

(* the assignments made for the absent fields too, with the zero value *)
AssignedAbsentToo(w) ==
    LET u == w.update
        c == w.current[1]
    IN  [w EXCEPT !.current = Some([ID |-> c.ID,
                                    Title |-> IF u.Title # Nil THEN u.Title[1] ELSE "",
                                    Status |-> IF u.Status # Nil THEN u.Status[1] ELSE "",
                                    UserID |-> IF u.UserID # Nil THEN u.UserID[1] ELSE 0])]

(* the working copy after the assignments current.X = *update.X *)
Assigned(w) ==
    LET u == w.update
        c == w.current[1]
    IN  [w EXCEPT !.current = Some([ID |-> c.ID,
                                    Title |-> IF u.Title # Nil THEN u.Title[1] ELSE c.Title,
                                    Status |-> IF u.Status # Nil THEN u.Status[1] ELSE c.Status,
                                    UserID |-> IF u.UserID # Nil THEN u.UserID[1] ELSE c.UserID])]

(* UpdateTask reading the row without FOR UPDATE: a row locked by another
   transaction is not waited for *)
PgUpdateTaskBeginUnlocked(p, id, update, actor) ==
    /\ backend = "pg" /\ CanStart(p)
    /\ HistRoom >= Fields(update)
    /\ IF update.Status # Nil /\ ~isValidTaskStatus(update.Status[1])
       THEN /\ pgRet' = Ret("UpdateTask", id, update, actor, ErrInvalidTaskStatus, Nil)
            /\ UNCHANGED <<tx, lock>>
       ELSE IF ~pgTaskExists(id)
       THEN /\ pgRet' = Ret("UpdateTask", id, update, actor, ErrTaskNotFound, Nil)
            /\ UNCHANGED <<tx, lock>>
       ELSE /\ lock' = [lock EXCEPT ![p] = id]
            /\ LET w == [IdleTx EXCEPT !.op = "UpdateTask", !.id = id, !.update = update,
                                       !.actor = actor, !.current = Some(pgTaskRow(id)),
                                       !.prior = LatestHistory(id)]
               IN  tx' = [tx EXCEPT ![p] = [w EXCEPT !.pc = IF update.UserID # Nil
                                                            THEN "ut_user"
                                                            ELSE NextStatement(w, 1)]]
            /\ pgRet' = NoRet
    /\ UNCHANGED <<tblUsers, tblTasks, tblTaskHistory, seqs>>
    /\ PgFrame

(* UpdateTask up to its first statement: the status check, BeginTx and
   SELECT id, title, status, user_id FROM tasks WHERE id = $1 FOR UPDATE.
   No row is ErrTaskNotFound; a row locked by another transaction is waited
   for; otherwise the row is locked and read. *)
PgUpdateTaskBegin(p, id, update, actor) ==
    /\ backend = "pg" /\ CanStart(p)
    /\ HistRoom >= Fields(update)
    /\ IF update.Status # Nil /\ ~isValidTaskStatus(update.Status[1])
       THEN /\ pgRet' = Ret("UpdateTask", id, update, actor, ErrInvalidTaskStatus, Nil)
            /\ UNCHANGED <<tx, lock>>
       ELSE IF ~pgTaskExists(id)
       THEN /\ pgRet' = Ret("UpdateTask", id, update, actor, ErrTaskNotFound, Nil)
            /\ UNCHANGED <<tx, lock>>
       ELSE /\ \A q \in Procs : lock[q] # id
            /\ lock' = [lock EXCEPT ![p] = id]
            /\ LET w == [IdleTx EXCEPT !.op = "UpdateTask", !.id = id, !.update = update,
                                       !.actor = actor, !.current = Some(pgTaskRow(id)),
                                       !.prior = LatestHistory(id)]
               IN  tx' = [tx EXCEPT ![p] = [w EXCEPT !.pc = IF update.UserID # Nil
                                                            THEN "ut_user"
                                                            ELSE NextStatement(w, 1)]]
            /\ pgRet' = NoRet
    /\ UNCHANGED <<tblUsers, tblTasks, tblTaskHistory, seqs>>
    /\ PgFrame

(* SELECT EXISTS(SELECT 1 FROM users WHERE id = $1) *)
PgUpdateTaskCheckUser(p) ==
    /\ backend = "pg" /\ tx[p].pc = "ut_user"
    /\ IF ~pgUserExists(tx[p].update.UserID[1])
       THEN PgReturn(p, ErrUserDoesNotExist, Nil)
       ELSE /\ tx' = [tx EXCEPT ![p].pc = NextStatement(tx[p], 1)]
            /\ pgRet' = NoRet
            /\ UNCHANGED lock
    /\ UNCHANGED <<tblUsers, tblTasks, tblTaskHistory, seqs>>
    /\ PgFrame

(* PgInsertHistory giving the row the last id handed out, not the next *)
PgInsertHistorySameID(w, h, field, oldText, newText) ==
    [w EXCEPT !.rows = @ \cup {TaskHistoryItem(h, w.id, w.now, normalizeActor(w.actor),
                                               field, Some(oldText), newText)},
              !.latestChange = Some(TaskHistoryItem(0, w.id, w.now, normalizeActor(w.actor),
                                                    field, Some(oldText), newText))]

(* PgInsertHistory recording the new value as the old one *)
PgInsertHistoryFromNew(w, h, field, oldText, newText) ==
    [w EXCEPT !.rows = @ \cup {TaskHistoryItem(h + 1, w.id, w.now, normalizeActor(w.actor),
                                               field, Some(newText), newText)},
              !.latestChange = Some(TaskHistoryItem(0, w.id, w.now, normalizeActor(w.actor),
                                                    field, Some(newText), newText))]

(* INSERT INTO task_history for one field whose value differs: the row
   gets the next id of the sequence; the change is remembered without an
   ID.  w is the working copy, h the last id handed out. *)
PgInsertHistory(w, h, field, oldText, newText) ==
    [w EXCEPT !.rows = @ \cup {TaskHistoryItem(h + 1, w.id, w.now, normalizeActor(w.actor),
                                               field, Some(oldText), newText)},
              !.latestChange = Some(TaskHistoryItem(0, w.id, w.now, normalizeActor(w.actor),
                                                    field, Some(oldText), newText))]

(* ReadNow with a clock that was set back to its start *)
ReadNowSetBack(w) == IF w.rows = {} THEN [w EXCEPT !.now = 0] ELSE w

(* now := time.Now() is read before the first INSERT of the transaction *)
ReadNow(w) == IF w.rows = {} THEN [w EXCEPT !.now = clock] ELSE w

PgUpdateTaskTitle(p) ==
    LET w == ReadNow(tx[p])
        r == PgInsertHistory(w, seqs.history, "title", w.current[1].Title, w.update.Title[1])
    IN
    /\ backend = "pg" /\ tx[p].pc = "ut_title"
    /\ seqs' = [seqs EXCEPT !.history = @ + 1]
    /\ tx' = [tx EXCEPT ![p] = [r EXCEPT !.pc = NextStatement(w, 2)]]
    /\ pgRet' = NoRet
    /\ UNCHANGED <<tblUsers, tblTasks, tblTaskHistory, lock>>
    /\ PgFrame

PgUpdateTaskStatus(p) ==
    LET w == ReadNow(tx[p])
        r == PgInsertHistory(w, seqs.history, "status", w.current[1].Status, w.update.Status[1])
    IN
    /\ backend = "pg" /\ tx[p].pc = "ut_status"
    /\ seqs' = [seqs EXCEPT !.history = @ + 1]
    /\ tx' = [tx EXCEPT ![p] = [r EXCEPT !.pc = NextStatement(w, 3)]]
    /\ pgRet' = NoRet
    /\ UNCHANGED <<tblUsers, tblTasks, tblTaskHistory, lock>>
    /\ PgFrame

PgUpdateTaskUserID(p) ==
    LET w == ReadNow(tx[p])
        r == PgInsertHistory(w, seqs.history, "userId", Itoa(w.current[1].UserID),
                             Itoa(w.update.UserID[1]))
    IN
    /\ backend = "pg" /\ tx[p].pc = "ut_userid"
    /\ seqs' = [seqs EXCEPT !.history = @ + 1]
    /\ tx' = [tx EXCEPT ![p] = [r EXCEPT !.pc = "ut_commit"]]
    /\ pgRet' = NoRet
    /\ UNCHANGED <<tblUsers, tblTasks, tblTaskHistory, lock>>
    /\ PgFrame

(* PgUpdateTaskCommit with the row lock outliving the transaction *)
PgUpdateTaskCommitHoldsLock(p) ==
    LET w == Assigned(tx[p])
        row == w.current[1]
    IN
    /\ backend = "pg" /\ tx[p].pc = "ut_commit"
    /\ tblTasks' = {IF t.ID = tx[p].id THEN row ELSE t : t \in tblTasks}
    /\ tblTaskHistory' = tblTaskHistory \cup tx[p].rows
    /\ IF tx[p].latestChange # Nil
       THEN /\ pgRet' = Ret(tx[p].op, tx[p].id, tx[p].update, tx[p].actor, ErrNone,
                            Some([ID |-> row.ID, Title |-> row.Title, Status |-> row.Status,
                                  UserID |-> row.UserID, LastChange |-> tx[p].latestChange]))
            /\ tx' = [tx EXCEPT ![p] = IdleTx]
       ELSE /\ tx' = [tx EXCEPT ![p] = [w EXCEPT !.pc = "ut_latest"]]
            /\ pgRet' = NoRet
    /\ UNCHANGED lock
    /\ UNCHANGED <<tblUsers, seqs>>
    /\ PgFrame

(* UPDATE tasks SET title = $1, status = $2, user_id = $3 WHERE id = $4 and
   tx.Commit(): the row and the history rows become visible, the row lock
   is released.  With a change recorded the call returns; with none it
   goes on to read the newest history row outside the transaction. *)
PgUpdateTaskCommit(p) ==
    LET w == Assigned(tx[p])
        row == w.current[1]
    IN
    /\ backend = "pg" /\ tx[p].pc = "ut_commit"
    /\ tblTasks' = {IF t.ID = tx[p].id THEN row ELSE t : t \in tblTasks}
    /\ tblTaskHistory' = tblTaskHistory \cup tx[p].rows
    /\ IF tx[p].latestChange # Nil
       THEN PgReturn(p, ErrNone, Some([ID |-> row.ID, Title |-> row.Title, Status |-> row.Status,
                                       UserID |-> row.UserID, LastChange |-> tx[p].latestChange]))
       ELSE /\ tx' = [tx EXCEPT ![p] = [w EXCEPT !.pc = "ut_latest"]]
            /\ lock' = [lock EXCEPT ![p] = 0]
            /\ pgRet' = NoRet
    /\ UNCHANGED <<tblUsers, seqs>>
    /\ PgFrame

(* The newest history row of the task, read after the commit; ok = FALSE
   is the query failing (or timing out), which leaves LastChange nil *)
PgUpdateTaskLatest(p, ok) ==
    LET row == tx[p].current[1]
        latestChange == IF ok THEN LatestHistory(tx[p].id) ELSE Nil
    IN
    /\ backend = "pg" /\ tx[p].pc = "ut_latest"
    /\ PgReturn(p, ErrNone, Some([ID |-> row.ID, Title |-> row.Title, Status |-> row.Status,
                                  UserID |-> row.UserID, LastChange |-> latestChange]))
    /\ UNCHANGED <<tblUsers, tblTasks, tblTaskHistory, seqs>>
    /\ PgFrame

(* A statement of an open transaction (or its commit) fails or runs into
   the context deadline: the deferred Rollback drops what the transaction
   wrote and the call returns the wrapped error *)
PgAbort(p) ==
    /\ backend = "pg" /\ InTx(p)
    /\ PgReturn(p, ErrInfra, Nil)
    /\ UNCHANGED <<tblUsers, tblTasks, tblTaskHistory, seqs>>
    /\ PgFrame

--------------------------------------------------------------------------
(* The specification *)

Init ==
    /\ backend \in {"mem", "pg"}
    /\ clock = 0
    /\ LET ds == NewDataStore(initialUsers, initialTasks)
       IN  /\ users = ds.users
           /\ tasks = ds.tasks
           /\ taskHistory = ds.taskHistory
           /\ nextUserID = ds.nextUserID
           /\ nextTaskID = ds.nextTaskID
           /\ nextHistID = ds.nextHistID
    /\ memRet = NoRet
    /\ LET db == seedInitialData(EmptyDB, ScanOrder({TaskRow(t) : t \in Range(initialTasks)}), clock)
         IN  /\ tblUsers = db.users
             /\ tblTasks = db.tasks
             /\ tblTaskHistory = db.history
             /\ seqs = db.seqs
    /\ lock = [p \in Procs |-> 0]
    /\ tx = [p \in Procs |-> IdleTx]
    /\ pgRet = NoRet
    /\ heap = <<>> /\ dataStore = NoDataStore /\ held = {}
    /\ GatewayIdle /\ StartupDone

Next ==
    \/ Tick
    \/ MemCreateUser
    \/ \E title \in TitleInputs, status \in StatusInputs, userID \in UserIDInputs,
          actor \in ActorInputs : MemCreateTask(title, status, userID, actor)
    \/ \E id \in TaskIDInputs, update \in TaskUpdate, actor \in UpdateActorInputs :
          MemUpdateTask(id, update, actor)
    \/ \E p \in Procs :
          \/ PgCreateUser(p)
          \/ \E title \in TitleInputs, status \in StatusInputs, userID \in UserIDInputs,
                actor \in ActorInputs : PgCreateTaskBegin(p, title, status, userID, actor)
          \/ PgCreateTaskInsert(p)
          \/ PgCreateTaskHistory(p)
          \/ PgCreateTaskCommit(p)
          \/ \E id \in TaskIDInputs, update \in TaskUpdate, actor \in UpdateActorInputs :
                PgUpdateTaskBegin(p, id, update, actor)
          \/ PgUpdateTaskCheckUser(p)
          \/ PgUpdateTaskTitle(p)
          \/ PgUpdateTaskStatus(p)
          \/ PgUpdateTaskUserID(p)
          \/ PgUpdateTaskCommit(p)
          \/ \E ok \in BOOLEAN : PgUpdateTaskLatest(p, ok)
          \/ PgAbort(p)

Spec == Init /\ [][Next]_vars

--------------------------------------------------------------------------
(* Properties of the history recorded by UpdateTask *)

(* the number of fields an update names with a value other than the task's *)
NChanged(task, update) ==
    (IF update.Title # Nil /\ update.Title[1] # task.Title THEN 1 ELSE 0)
        + (IF update.Status # Nil /\ update.Status[1] # task.Status THEN 1 ELSE 0)
        + (IF update.UserID # Nil /\ update.UserID[1] # task.UserID THEN 1 ELSE 0)

(* C1: a successful UpdateTask adds to the history of its task exactly one
   entry for each field that the update names and whose value differs from
   the stored one, and none when no field differs.  In the in-memory store
   the call is one step; in the PostgreSQL store the entries appear with the
   commit of the call's transaction, which holds the row lock since it read
   the stored values. *)
C1_OneEntryPerChangedField ==
    [][ \A id \in TaskIDInputs :
          /\ (memRet'.op = "UpdateTask" /\ memRet'.err = ErrNone /\ memRet'.id = id)
                => Len(HistoryOf(id)') =
                     Len(HistoryOf(id)) + NChanged(tasks[FindTask(id)], memRet'.update)
          /\ \A p \in Procs :
                (tx[p].pc = "ut_commit" /\ tx[p].id = id /\ tx'[p].pc # "ut_commit"
                    /\ pgRet'.err = ErrNone)
                => Cardinality(HistoryRowsOf(id)') =
                     Cardinality(HistoryRowsOf(id)) + NChanged(pgTaskRow(id), tx[p].update)
      ]_vars

(* an update of title and status of task 1 has returned and both its entries
   are in the history *)
C1_Witness ==
    /\ memRet.op = "UpdateTask" /\ memRet.err = ErrNone /\ memRet.id = 1
    /\ memRet.update = Update(Some("New"), Some("completed"), Nil)
    /\ Len(HistoryOf(1)) = 2

(* the value of a field as the history records it *)
FieldText(task, field) ==
    IF field = "title" THEN task.Title
    ELSE IF field = "status" THEN task.Status
    ELSE Itoa(task.UserID)

(* h holds the entries of one task, oldest first *)
Chained(h, task) ==
    \A field \in {"title", "status", "userId"} :
        LET hf == SelectSeq(h, LAMBDA e : e.Field = field)
        IN  /\ \A i \in 1..(Len(hf) - 1) : hf[i + 1].FromValue = Some(hf[i].ToValue)
            /\ hf # <<>> => hf[Len(hf)].ToValue = FieldText(task, field)

(* C2: for each task and field, in the order of recording, every entry's
   fromValue is the toValue of the entry before it, and the toValue of the
   newest entry is the task's current value of the field, a user id being
   written in decimal; in both stores, whatever way the calls interleave *)
C2_HistoryChains ==
    /\ \A i \in 1..Len(tasks) : Chained(HistoryOf(tasks[i].ID), tasks[i])
    /\ \A t \in tblTasks : Chained(OrderByID(HistoryRowsOf(t.ID)), t)

(* task 1 of the PostgreSQL store has gone from pending to completed and
   back: three status entries *)
C2_Witness ==
    /\ backend = "pg"
    /\ Cardinality({h \in HistoryRowsOf(1) : h.Field = "status"}) = 3
    /\ pgTaskRow(1).Status = "pending"

--------------------------------------------------------------------------
(* Properties of CreateTask *)

(* all history entries of a store, as a set *)
MemEntries == UNION {Range(taskHistory[id]) : id \in DOMAIN taskHistory}

(* C4: a successful CreateTask adds exactly one task and exactly one history
   entry, with field "status", fromValue null, toValue the task's status and
   changedBy the normalized actor, and the lastChange of the returned task
   is that entry *)
C4_CreateTaskRecordsCreation ==
    [][ /\ (memRet'.op = "CreateTask" /\ memRet'.err = ErrNone)
            => LET t == memRet'.task[1]
               IN  /\ Len(tasks') = Len(tasks) + 1
                   /\ tasks'[Len(tasks')] = t
                   /\ Cardinality(MemEntries') = Cardinality(MemEntries) + 1
                   /\ \E e \in MemEntries' \ MemEntries :
                        /\ e.TaskID = t.ID /\ e.Field = "status" /\ e.FromValue = Nil
                        /\ e.ToValue = t.Status
                        /\ e.ChangedBy = normalizeActor(memRet'.actor)
                        /\ t.LastChange = Some(e)
        /\ (pgRet'.op = "CreateTask" /\ pgRet'.err = ErrNone)
            => LET t == pgRet'.task[1]
               IN  /\ Cardinality(tblTasks') = Cardinality(tblTasks) + 1
                   /\ tblTasks' \ tblTasks = {TaskRow(t)}
                   /\ Cardinality(tblTaskHistory') = Cardinality(tblTaskHistory) + 1
                   /\ \E e \in tblTaskHistory' \ tblTaskHistory :
                        /\ e.TaskID = t.ID /\ e.Field = "status" /\ e.FromValue = Nil
                        /\ e.ToValue = t.Status
                        /\ e.ChangedBy = normalizeActor(pgRet'.actor)
                        /\ t.LastChange = Some(e)
      ]_vars

(* C5: a CreateTask that fails with ErrInvalidTaskStatus or
   ErrUserDoesNotExist leaves the tasks, every task's history and the number
   of history entries as they were *)
C5_FailedCreateChangesNothing ==
    [][ /\ (memRet'.op = "CreateTask"
                /\ memRet'.err \in {ErrInvalidTaskStatus, ErrUserDoesNotExist})
            => UNCHANGED <<tasks, taskHistory>>
        /\ (pgRet'.op = "CreateTask"
                /\ pgRet'.err \in {ErrInvalidTaskStatus, ErrUserDoesNotExist})
            => UNCHANGED <<tblTasks, tblTaskHistory>>
      ]_vars

(* a CreateTask with a valid status for user 4, who does not exist, has
   failed, and the store holds the tasks it started with *)
C5_Witness ==
    /\ memRet.op = "CreateTask" /\ memRet.err = ErrUserDoesNotExist
    /\ memRet.update.UserID = Some(4)
    /\ Len(tasks) = Len(initialTasks)

--------------------------------------------------------------------------
(* Properties of the failures of UpdateTask *)

(* C6: an UpdateTask of a task id that does not exist fails with
   ErrTaskNotFound, whatever the update holds, and changes nothing *)
C6_MissingTaskIsNotFound ==
    [][ /\ (memRet'.op = "UpdateTask" /\ ~taskExistsLocked(memRet'.id))
            => memRet'.err = ErrTaskNotFound /\ UNCHANGED <<tasks, taskHistory>>
        /\ (pgRet'.op = "UpdateTask" /\ ~pgTaskExists(pgRet'.id))
            => pgRet'.err = ErrTaskNotFound /\ UNCHANGED <<tblTasks, tblTaskHistory>>
      ]_vars

(* C7: an UpdateTask that fails with ErrInvalidTaskStatus or
   ErrUserDoesNotExist is never applied in part: no field of a task changes
   and no history entry is added, even when the update also names a valid,
   different value for another field *)
C7_FailedUpdateChangesNothing ==
    [][ /\ (memRet'.op = "UpdateTask"
                /\ memRet'.err \in {ErrInvalidTaskStatus, ErrUserDoesNotExist})
            => UNCHANGED <<tasks, taskHistory>>
        /\ (pgRet'.op = "UpdateTask"
                /\ pgRet'.err \in {ErrInvalidTaskStatus, ErrUserDoesNotExist})
            => UNCHANGED <<tblTasks, tblTaskHistory>>
      ]_vars

(* an update of task 1 to a new title and to user 4, who does not exist, has
   failed, and the task has its old title *)
C7_Witness ==
    /\ memRet.op = "UpdateTask" /\ memRet.err = ErrUserDoesNotExist /\ memRet.id = 1
    /\ memRet.update = Update(Some("New"), Nil, Some(4))
    /\ tasks[FindTask(1)].Title = initialTasks[1].Title
    /\ HistoryOf(1) = <<>>

--------------------------------------------------------------------------
(* Properties of the lastChange a call returns *)

(* the field of the entry an update records last: title, status, userId is
   the order of recording *)
LastChangedField(task, update) ==
    IF update.UserID # Nil /\ update.UserID[1] # task.UserID THEN "userId"
    ELSE IF update.Status # Nil /\ update.Status[1] # task.Status THEN "status"
    ELSE "title"

(* C8: after a successful UpdateTask that changed at least one field, the
   lastChange of the returned task is the entry recorded last, the fields
   being taken in the order title, status, userId, and that entry is the
   first element GetTaskHistory returns next *)
C8_LastChangeIsNewestEntry ==
    [][ \A id \in TaskIDInputs :
          /\ (memRet'.op = "UpdateTask" /\ memRet'.err = ErrNone /\ memRet'.id = id
                    /\ NChanged(tasks[FindTask(id)], memRet'.update) > 0)
                => /\ memRet'.task[1].LastChange = Some(MemGetTaskHistory(id)'.history[1])
                   /\ MemGetTaskHistory(id)'.history[1].Field
                        = LastChangedField(tasks[FindTask(id)], memRet'.update)
          /\ \A p \in Procs :
                (tx[p].pc = "ut_commit" /\ tx[p].id = id /\ tx'[p].pc = "idle"
                    /\ pgRet'.err = ErrNone)
                => /\ pgRet'.task[1].LastChange = Some(PgGetTaskHistory(id)'.history[1])
                   /\ PgGetTaskHistory(id)'.history[1].Field
                        = LastChangedField(pgTaskRow(id), tx[p].update)
      ]_vars

(* lastChange, when there is one, tells the value the task has *)
Reflected(task) ==
    task.LastChange # Nil
        => task.LastChange[1].ToValue = FieldText(task, task.LastChange[1].Field)

(* C9: a successful UpdateTask that changes no field returns, as lastChange,
   the entry that was the task's newest before the call (none when the task
   had no entry), in both stores and whatever runs beside it; the lastChange
   it returns tells no change that the returned fields do not show *)
C9_NoChangeReturnsPriorLatest ==
    [][ \A id \in TaskIDInputs :
          /\ (memRet'.op = "UpdateTask" /\ memRet'.err = ErrNone /\ memRet'.id = id
                    /\ NChanged(tasks[FindTask(id)], memRet'.update) = 0)
                => /\ memRet'.task[1].LastChange =
                        (IF HistoryOf(id) = <<>> THEN Nil
                         ELSE Some(MemGetTaskHistory(id).history[1]))
                   /\ Reflected(memRet'.task[1])
          /\ \A p \in Procs :
                (tx[p].pc = "ut_latest" /\ tx[p].id = id /\ tx'[p].pc = "idle")
                => /\ pgRet'.task[1].LastChange = tx[p].prior
                   /\ Reflected(pgRet'.task[1])
      ]_vars

(* the filters GetTasks is read with *)
StatusFilters == {"", "completed"}
UserIDFilters == { <<>>, <<"2">> }

(* C10: in every state, the lastChange of each task GetTasks returns is the
   first element of GetTaskHistory for that task, and there is none exactly
   when the task has no history *)
C10_GetTasksShowsNewestEntry ==
    \A status \in StatusFilters, userID \in UserIDFilters :
        /\ \A i \in 1..Len(MemGetTasks(status, userID)) :
              LET t == MemGetTasks(status, userID)[i]
                  h == MemGetTaskHistory(t.ID).history
              IN  t.LastChange = IF h = <<>> THEN Nil ELSE Some(h[1])
        /\ \A i \in 1..Len(PgGetTasks(status, userID)) :
              LET t == PgGetTasks(status, userID)[i]
                  h == PgGetTaskHistory(t.ID).history
              IN  t.LastChange = IF h = <<>> THEN Nil ELSE Some(h[1])

(* task 1 has two entries and is among the completed tasks, task 2, of user
   2, has none *)
C10_Witness ==
    /\ backend = "mem"
    /\ Len(HistoryOf(1)) = 2
    /\ \E i \in 1..Len(MemGetTasks("completed", <<>>)) : MemGetTasks("completed", <<>>)[i].ID = 1
    /\ \E i \in 1..Len(MemGetTasks("", <<"2">>)) :
          /\ MemGetTasks("", <<"2">>)[i].ID = 2
          /\ MemGetTasks("", <<"2">>)[i].LastChange = Nil

--------------------------------------------------------------------------
(* Properties of the history of every task *)

(* C3: every task of either store has at least one history entry: its
   GetTaskHistory is not empty *)
C3_EveryTaskHasHistory ==
    /\ backend = "mem" => \A i \in 1..Len(tasks) : MemGetTaskHistory(tasks[i].ID).history # <<>>
    /\ backend = "pg" => \A t \in tblTasks : PgGetTaskHistory(t.ID).history # <<>>

--------------------------------------------------------------------------
(* Properties of GetTasks *)

(* C11: the task GetTasks reads back right after a successful CreateTask,
   with no write in between, has the lastChange that CreateTask returned,
   attribute for attribute (id, taskId, changedAt, changedBy, field,
   fromValue, toValue), in both stores *)
C11_CreateTaskRoundTrip ==
    /\ (memRet.op = "CreateTask" /\ memRet.err = ErrNone)
        => \E i \in 1..Len(MemGetTasks("", <<>>)) :
              /\ MemGetTasks("", <<>>)[i].ID = memRet.task[1].ID
              /\ MemGetTasks("", <<>>)[i].LastChange = memRet.task[1].LastChange
    /\ (pgRet.op = "CreateTask" /\ pgRet.err = ErrNone)
        => \E i \in 1..Len(PgGetTasks("", <<>>)) :
              /\ PgGetTasks("", <<>>)[i].ID = pgRet.task[1].ID
              /\ PgGetTasks("", <<>>)[i].LastChange = pgRet.task[1].LastChange

(* the userId filters GetTasks is tried with, each with the integer it
   stands for: none when it is no integer *)
UserIDFilterCases ==
    { [text |-> <<>>,          parsed |-> Nil],
      [text |-> <<"2">>,       parsed |-> Some(2)],
      [text |-> <<"+", "2">>,  parsed |-> Some(2)],
      [text |-> <<"2", "x">>,  parsed |-> Nil] }

StatusFilterCases == {"", "pending"}

(* the task passes the filters *)
Passes(task, status, case) ==
    /\ status = "" \/ task.Status = status
    /\ case.text = <<>> \/ (case.parsed # Nil /\ task.UserID = case.parsed[1])

(* C12: GetTasks(status, userId) returns exactly the tasks that have the
   status, when one is given, and the user the userId filter names, when one
   is given, both together; a userId filter that is no integer gives the
   empty list, whatever the status filter and the tasks *)
C12_GetTasksFilters ==
    \A status \in StatusFilterCases, case \in UserIDFilterCases :
        LET got == IF backend = "mem" THEN MemGetTasks(status, case.text)
                   ELSE PgGetTasks(status, case.text)
            all == IF backend = "mem" THEN {TaskRow(tasks[i]) : i \in 1..Len(tasks)}
                   ELSE tblTasks
        IN  /\ {TaskRow(t) : t \in Range(got)} = {t \in all : Passes(t, status, case)}
            /\ (case.text # <<>> /\ case.parsed = Nil) => got = <<>>

(* task 1, pending, has gone to user 2, whose other task is in progress:
   the two filters together select task 1 alone *)
C12_Witness ==
    /\ backend = "mem"
    /\ Len(MemGetTasks("pending", <<"2">>)) = 1
    /\ MemGetTasks("pending", <<"2">>)[1].ID = 1
    /\ Len(MemGetTasks("", <<"2">>)) = 2
    /\ Len(MemGetTasks("pending", <<>>)) = 1

--------------------------------------------------------------------------
(* The in-memory store built from other lists than the initial ones.
   NewDataStore takes any users and tasks: none at all, the initial ones,
   and tasks that are not in the order of their ids. *)

SeedLists ==
    { [users |-> <<>>, tasks |-> <<>>],
      [users |-> initialUsers, tasks |-> initialTasks],
      [users |-> initialUsers, tasks |-> <<initialTasks[3], initialTasks[1]>>] }

InitSeeds ==
    /\ backend = "mem"
    /\ clock = 0
    /\ \E seed \in SeedLists :
          LET ds == NewDataStore(seed.users, seed.tasks)
          IN  /\ users = ds.users
              /\ tasks = ds.tasks
              /\ taskHistory = ds.taskHistory
              /\ nextUserID = ds.nextUserID
              /\ nextTaskID = ds.nextTaskID
              /\ nextHistID = ds.nextHistID
    /\ memRet = NoRet
    /\ LET db == seedInitialData(EmptyDB, ScanOrder({TaskRow(t) : t \in Range(initialTasks)}), clock)
       IN  /\ tblUsers = db.users
           /\ tblTasks = db.tasks
           /\ tblTaskHistory = db.history
           /\ seqs = db.seqs
    /\ lock = [p \in Procs |-> 0]
    /\ tx = [p \in Procs |-> IdleTx]
    /\ pgRet = NoRet
    /\ heap = <<>> /\ dataStore = NoDataStore /\ held = {}
    /\ GatewayIdle /\ StartupDone

NextMem ==
    \/ Tick
    \/ MemCreateUser
    \/ \E title \in TitleInputs, status \in StatusInputs, userID \in UserIDInputs,
          actor \in ActorInputs : MemCreateTask(title, status, userID, actor)
    \/ \E id \in TaskIDInputs, update \in TaskUpdate, actor \in UpdateActorInputs :
          MemUpdateTask(id, update, actor)

SpecSeeds == InitSeeds /\ [][NextMem]_vars

(* C13: in every reachable state and for every filter, GetTasks returns its
   tasks in strictly ascending order of their ids: in the in-memory store,
   whatever list NewDataStore was given and whatever was created since, and
   in the PostgreSQL store *)
C13_GetTasksAscending ==
    \A status \in StatusFilterCases, case \in UserIDFilterCases :
        LET got == IF backend = "mem" THEN MemGetTasks(status, case.text)
                   ELSE PgGetTasks(status, case.text)
        IN  \A i, j \in 1..Len(got) : i < j => got[i].ID < got[j].ID

(* the largest id of the users, 0 when there is none *)
LargestUserID == Max({users[i].ID : i \in 1..Len(users)})

(* C15: every CreateUser of the in-memory store succeeds and hands out the
   id that follows the largest one there is (1 on an empty store), so that n
   calls, however they interleave, hand out m+1 .. m+n, each once *)
C15_CreateUserIDs ==
    [][ memRet'.op = "CreateUser"
            => /\ memRet'.err = ErrNone
               /\ memRet'.id = LargestUserID + 1
               /\ Len(users') = Len(users) + 1
               /\ users'[Len(users')].ID = memRet'.id
               /\ \A i \in 1..Len(users) : users'[i] = users[i]
      ]_vars

(* on a store that started empty, three calls have handed out 1, 2 and 3 *)
C15_Witness ==
    /\ memRet.op = "CreateUser" /\ memRet.id = 3
    /\ [i \in 1..Len(users) |-> users[i].ID] = <<1, 2, 3>>

--------------------------------------------------------------------------
(* Properties of GetTaskHistory *)

(* GetTaskHistory of the running store *)
GetTaskHistoryOf(taskID) ==
    IF backend = "mem" THEN MemGetTaskHistory(taskID) ELSE PgGetTaskHistory(taskID)

(* the entries recorded for a task, and the ids of the tasks there are *)
EntriesOf(taskID) ==
    IF backend = "mem" THEN Range(HistoryOf(taskID)) ELSE HistoryRowsOf(taskID)

TaskIDs ==
    IF backend = "mem" THEN {tasks[i].ID : i \in 1..Len(tasks)} ELSE {t.ID : t \in tblTasks}

(* C14: GetTaskHistory fails with ErrTaskNotFound for an id no task has;
   for a task it returns the entries of that task, all of them and no
   other, newest first: entry ids are handed out in the order of recording,
   so a later entry (larger id) stands before an earlier one, its changedAt
   is not older, and the entries of one call, having one changedAt, stand
   in descending order of their ids *)
C14_HistoryNewestFirst ==
    \A taskID \in TaskIDs \cup TaskIDInputs :
        LET got == GetTaskHistoryOf(taskID)
            h == got.history
        IN  IF taskID \notin TaskIDs
            THEN got.err = ErrTaskNotFound
            ELSE /\ got.err = ErrNone
                 /\ Range(h) = EntriesOf(taskID)
                 /\ Len(h) = Cardinality(EntriesOf(taskID))
                 /\ \A i, j \in 1..Len(h) :
                       i < j => h[i].ID > h[j].ID /\ h[i].ChangedAt >= h[j].ChangedAt

(* task 1 of the PostgreSQL store has its seeded entry and, from one later
   call, a title and a status entry of one changedAt: status, title, seed *)
C14_Witness ==
    /\ backend = "pg"
    /\ Len(PgGetTaskHistory(1).history) = 3
    /\ PgGetTaskHistory(1).history[1].Field = "status"
    /\ PgGetTaskHistory(1).history[2].Field = "title"
    /\ PgGetTaskHistory(1).history[2].ChangedAt = PgGetTaskHistory(1).history[1].ChangedAt
    /\ PgGetTaskHistory(1).history[3].ChangedAt < PgGetTaskHistory(1).history[2].ChangedAt
    /\ PgGetTaskHistory(4).err = ErrTaskNotFound

--------------------------------------------------------------------------
(* Referential integrity *)

(* the ids of the users each store holds *)
MemUserIDs == {users[i].ID : i \in 1..Len(users)}
PgUserIDs == {u.ID : u \in tblUsers}

(* a call that returned named a user; the store has, or has not, that user *)
NamesUser(ret) == ret.op \in {"CreateTask", "UpdateTask"} /\ ret.update.UserID # Nil

(* the call is wrong in nothing but, perhaps, its user *)
OtherwiseValid(ret, taskExists) ==
    /\ ret.update.Status # Nil => isValidTaskStatus(ret.update.Status[1])
    /\ ret.op = "UpdateTask" => taskExists

(* a PostgreSQL transaction that has passed its user check and not yet
   returned *)
PastUserCheck(p) ==
    \/ tx[p].pc \in {"ct_insert", "ct_history", "ct_commit"}
    \/ tx[p].pc \in {"ut_title", "ut_status", "ut_userid", "ut_commit", "ut_latest"}
          /\ tx[p].update.UserID # Nil

(* C16: in every reachable state each task's userId is the id of a user of
   the store.  A CreateTask or UpdateTask that names a missing user does not
   succeed, and fails with ErrUserDoesNotExist when nothing else is wrong
   with it; ErrUserDoesNotExist is returned for a missing user only.  What
   the existence check found still holds when the write is made: a
   transaction past its check names a user that exists. *)
C16_ReferentialIntegrity ==
    /\ \A i \in 1..Len(tasks) : tasks[i].UserID \in MemUserIDs
    /\ \A t \in tblTasks : t.UserID \in PgUserIDs
    /\ \A p \in Procs : PastUserCheck(p) => tx[p].update.UserID[1] \in PgUserIDs
    /\ NamesUser(memRet) =>
          /\ memRet.update.UserID[1] \notin MemUserIDs =>
                /\ memRet.err # ErrNone
                /\ OtherwiseValid(memRet, taskExistsLocked(memRet.id))
                      => memRet.err = ErrUserDoesNotExist
          /\ memRet.err = ErrUserDoesNotExist => memRet.update.UserID[1] \notin MemUserIDs
    /\ NamesUser(pgRet) =>
          /\ pgRet.update.UserID[1] \notin PgUserIDs =>
                /\ pgRet.err # ErrNone
                /\ OtherwiseValid(pgRet, pgTaskExists(pgRet.id))
                      => pgRet.err \in {ErrUserDoesNotExist, ErrInfra}
          /\ pgRet.err = ErrUserDoesNotExist => pgRet.update.UserID[1] \notin PgUserIDs

(* user 4 has been created and an update of task 1 to user 4 has succeeded
   in the PostgreSQL store *)
C16_Witness ==
    /\ pgRet.op = "UpdateTask" /\ pgRet.err = ErrNone /\ pgRet.id = 1
    /\ pgRet.update.UserID = Some(4)
    /\ pgTaskRow(1).UserID = 4
    /\ 4 \in PgUserIDs

--------------------------------------------------------------------------
(* The two stores side by side: every call is made on the in-memory store
   and on the PostgreSQL store, where it runs from its first statement to
   its return with no other call between and no statement failing *)

PgCreateUserSerial ==
    /\ \E id \in UserIDInputs : id > seqs.users      \* only users a call can name
    /\ seqs' = [seqs EXCEPT !.users = @ + 1]
    /\ tblUsers' = tblUsers \cup {[ID |-> seqs.users + 1, Name |-> NewUserInput.Name,
                                   Email |-> NewUserInput.Email, Role |-> NewUserInput.Role]}
    /\ pgRet' = Ret("CreateUser", seqs.users + 1, Nil, <<>>, ErrNone, Nil)
    /\ UNCHANGED <<tblTasks, tblTaskHistory, lock, tx>>

PgCreateTaskSerial(title, status, userID, actor) ==
    LET args == Update(Some(title), Some(status), Some(userID))
        id == seqs.tasks + 1
        changedAt == clock
        row == [ID |-> id, Title |-> title, Status |-> status, UserID |-> userID]
        lastChange == TaskHistoryItem(0, id, changedAt, normalizeActor(actor), "status", Nil, status)
    IN
    /\ \E t \in TaskIDInputs : t > seqs.tasks        \* only tasks a call can name
    /\ seqs.history - Len(initialTasks) + 1 <= MaxHist
    /\ IF ~isValidTaskStatus(status)
       THEN /\ pgRet' = Ret("CreateTask", 0, args, actor, ErrInvalidTaskStatus, Nil)
            /\ UNCHANGED <<tblTasks, tblTaskHistory, seqs>>
       ELSE IF ~pgUserExists(userID)
       THEN /\ pgRet' = Ret("CreateTask", 0, args, actor, ErrUserDoesNotExist, Nil)
            /\ UNCHANGED <<tblTasks, tblTaskHistory, seqs>>
       ELSE /\ seqs' = [seqs EXCEPT !.tasks = @ + 1, !.history = @ + 1]
            /\ tblTasks' = tblTasks \cup {row}
            /\ tblTaskHistory' = tblTaskHistory
                                    \cup {[lastChange EXCEPT !.ID = seqs.history + 1]}
            /\ pgRet' = Ret("CreateTask", id, args, actor, ErrNone,
                            Some([ID |-> id, Title |-> title, Status |-> status,
                                  UserID |-> userID, LastChange |-> Some(lastChange)]))
    /\ UNCHANGED <<tblUsers, lock, tx>>

PgUpdateTaskSerial(id, update, actor) ==
    /\ seqs.history - Len(initialTasks) + Fields(update) <= MaxHist
    /\ IF update.Status # Nil /\ ~isValidTaskStatus(update.Status[1])
       THEN /\ pgRet' = Ret("UpdateTask", id, update, actor, ErrInvalidTaskStatus, Nil)
            /\ UNCHANGED <<tblTasks, tblTaskHistory, seqs>>
       ELSE IF ~pgTaskExists(id)
       THEN /\ pgRet' = Ret("UpdateTask", id, update, actor, ErrTaskNotFound, Nil)
            /\ UNCHANGED <<tblTasks, tblTaskHistory, seqs>>
       ELSE IF update.UserID # Nil /\ ~pgUserExists(update.UserID[1])
       THEN /\ pgRet' = Ret("UpdateTask", id, update, actor, ErrUserDoesNotExist, Nil)
            /\ UNCHANGED <<tblTasks, tblTaskHistory, seqs>>
       ELSE LET w0 == [IdleTx EXCEPT !.op = "UpdateTask", !.id = id, !.update = update,
                                     !.actor = actor, !.current = Some(pgTaskRow(id)),
                                     !.now = clock]
                c == w0.current[1]
                w1 == IF NextStatement(w0, 1) = "ut_title"
                      THEN PgInsertHistory(w0, seqs.history, "title", c.Title, update.Title[1])
                      ELSE w0
                w2 == IF update.Status # Nil /\ c.Status # update.Status[1]
                      THEN PgInsertHistory(w1, seqs.history + Cardinality(w1.rows), "status",
                                           c.Status, update.Status[1])
                      ELSE w1
                w3 == IF update.UserID # Nil /\ c.UserID # update.UserID[1]
                      THEN PgInsertHistory(w2, seqs.history + Cardinality(w2.rows), "userId",
                                           Itoa(c.UserID), Itoa(update.UserID[1]))
                      ELSE w2
                row == Assigned(w3).current[1]
                latestChange == IF w3.latestChange # Nil THEN w3.latestChange
                                ELSE LatestHistory(id)
            IN  /\ seqs' = [seqs EXCEPT !.history = @ + Cardinality(w3.rows)]
                /\ tblTasks' = {IF t.ID = id THEN row ELSE t : t \in tblTasks}
                /\ tblTaskHistory' = tblTaskHistory \cup w3.rows
                /\ pgRet' = Ret("UpdateTask", id, update, actor, ErrNone,
                                Some([ID |-> row.ID, Title |-> row.Title, Status |-> row.Status,
                                      UserID |-> row.UserID, LastChange |-> latestChange]))
    /\ UNCHANGED <<tblUsers, lock, tx>>

BothCreateUser ==
    /\ backend = "both"
    /\ CreateUserLocked
    /\ PgCreateUserSerial
    /\ UNCHANGED <<backend, clock, otherVars>>

BothCreateTask(title, status, userID, actor) ==
    /\ backend = "both"
    /\ CreateTaskLocked(title, status, userID, actor)
    /\ PgCreateTaskSerial(title, status, userID, actor)
    /\ UNCHANGED <<backend, clock, otherVars>>

BothUpdateTask(id, update, actor) ==
    /\ backend = "both"
    /\ UpdateTaskLocked(id, update, actor)
    /\ PgUpdateTaskSerial(id, update, actor)
    /\ UNCHANGED <<backend, clock, otherVars>>

InitBoth ==
    /\ backend = "both"
    /\ clock = 0
    /\ LET ds == NewDataStore(initialUsers, initialTasks)
       IN  /\ users = ds.users
           /\ tasks = ds.tasks
           /\ taskHistory = ds.taskHistory
           /\ nextUserID = ds.nextUserID
           /\ nextTaskID = ds.nextTaskID
           /\ nextHistID = ds.nextHistID
    /\ memRet = NoRet
    /\ LET db == seedInitialData(EmptyDB, ScanOrder({TaskRow(t) : t \in Range(initialTasks)}), clock)
         IN  /\ tblUsers = db.users
             /\ tblTasks = db.tasks
             /\ tblTaskHistory = db.history
             /\ seqs = db.seqs
    /\ lock = [p \in Procs |-> 0]
    /\ tx = [p \in Procs |-> IdleTx]
    /\ pgRet = NoRet
    /\ heap = <<>> /\ dataStore = NoDataStore /\ held = {}
    /\ GatewayIdle /\ StartupDone

NextBoth ==
    \/ Tick
    \/ BothCreateUser
    \/ \E title \in TitleInputs, status \in StatusInputs, userID \in UserIDInputs,
          actor \in ActorInputs : BothCreateTask(title, status, userID, actor)
    \/ \E id \in TaskIDInputs, update \in TaskUpdate, actor \in UpdateActorInputs :
          BothUpdateTask(id, update, actor)

SpecBoth == InitBoth /\ [][NextBoth]_vars

(* what the two stores are compared in: an entry without its id and time,
   a task with its newest change so reduced *)
EntryView(e) == [Field |-> e.Field, FromValue |-> e.FromValue, ToValue |-> e.ToValue,
                 ChangedBy |-> e.ChangedBy]
ChangeView(c) == IF c = Nil THEN Nil ELSE Some(EntryView(c[1]))
TaskView(t) == [ID |-> t.ID, Title |-> t.Title, Status |-> t.Status, UserID |-> t.UserID,
                LastChange |-> ChangeView(t.LastChange)]
ResultView(ret) == [ret EXCEPT !.task = IF @ = Nil THEN Nil ELSE Some(TaskView(@[1]))]
ViewOf(s, V(_)) == [i \in 1..Len(s) |-> V(s[i])]

(* the calls returned the same error *)
SameErrors == memRet.err = pgRet.err

(* the calls returned the same result *)
SameResults == ResultView(memRet) = ResultView(pgRet)

(* GetTasks returns the same tasks from both stores *)
SameTasks ==
    \A status \in StatusFilterCases, case \in UserIDFilterCases :
        ViewOf(MemGetTasks(status, case.text), TaskView)
            = ViewOf(PgGetTasks(status, case.text), TaskView)

(* GetTaskHistory returns the same entries in the same order from both *)
SameHistory ==
    \A id \in TaskIDInputs \cup {tasks[i].ID : i \in 1..Len(tasks)} :
        /\ MemGetTaskHistory(id).err = PgGetTaskHistory(id).err
        /\ ViewOf(MemGetTaskHistory(id).history, EntryView)
              = ViewOf(PgGetTaskHistory(id).history, EntryView)

(* C17: after the same sequence of calls, made one at a time, the in-memory
   store and the PostgreSQL store have returned the same result and the
   same error to the last call, and GetTasks and GetTaskHistory return from
   both the same tasks and the same history entries (field, fromValue,
   toValue, changedBy) in the same order *)
C17_StoresBehaveAlike ==
    backend = "both" => SameErrors /\ SameResults /\ SameTasks /\ SameHistory

--------------------------------------------------------------------------
(* Concurrent updates of one task in the PostgreSQL store *)

(* the client is in an UpdateTask transaction, between its SELECT ... FOR
   UPDATE and its commit *)
HoldsRow(p) == tx[p].pc \in {"ut_user", "ut_title", "ut_status", "ut_userid", "ut_commit"}

(* what the client has read and written so far is what a call running alone
   on the stored row would have read and written *)
ReadsStored(p) ==
    LET stored == pgTaskRow(tx[p].id)
        new == Assigned([tx[p] EXCEPT !.current = Some(stored)]).current[1]
    IN  /\ lock[p] = tx[p].id
        /\ \A q \in Procs \ {p} : lock[q] # tx[p].id
        /\ tx[p].current = Some(stored)
        /\ tx[p].prior = LatestHistory(tx[p].id)
        /\ \A h \in tx[p].rows :
              /\ h.TaskID = tx[p].id
              /\ h.FromValue = Some(FieldText(stored, h.Field))
              /\ h.ToValue = FieldText(new, h.Field)
              /\ h.FromValue # Some(h.ToValue)

(* the call's commit takes the stored row and its history to where the
   update, run alone at that moment, takes them *)
CommitsSerially(p) ==
    LET id == tx[p].id
        stored == pgTaskRow(id)
        new == Assigned([tx[p] EXCEPT !.current = Some(stored)]).current[1]
    IN  /\ {t \in tblTasks' : t.ID = id} = {new}
        /\ tblTasks' \ {new} = tblTasks \ {stored}
        /\ tblTaskHistory' = tblTaskHistory \cup tx[p].rows
        /\ Cardinality(tx[p].rows) = NChanged(stored, tx[p].update)
        /\ Cardinality(tblTaskHistory') = Cardinality(tblTaskHistory) + Cardinality(tx[p].rows)

(* C18: UpdateTask calls on one task are serialized by the row lock, which
   a call holds from its read of the row to its commit: meanwhile no other
   call holds it, the row and the task's history stay as the call read
   them, and the entries the call writes lead from the stored values to
   the new ones; its commit changes the row and the history as the update
   run alone at that moment would, so no update is lost *)
C18_UpdatesSerialized ==
    [][ \A p \in Procs :
          /\ HoldsRow(p)' => ReadsStored(p)'
          /\ (tx[p].pc = "ut_commit" /\ tx'[p].pc # "ut_commit" /\ pgRet'.err # ErrInfra)
                => CommitsSerially(p)
      ]_vars

(* a second update of task 1 is about to commit its entry, after an earlier
   update of the task has committed one *)
C18_Witness ==
    \E p \in Procs :
        /\ tx[p].pc = "ut_commit" /\ tx[p].id = 1 /\ tx[p].rows # {}
        /\ tx[p].prior # Nil /\ tx[p].prior[1].FromValue # Nil

--------------------------------------------------------------------------
(* Transactions of the PostgreSQL store *)

(* every stored task has its creation entry *)
HasCreationEntry ==
    \A t \in tblTasks : \E h \in tblTaskHistory :
        h.TaskID = t.ID /\ h.Field = "status" /\ h.FromValue = Nil

(* the step is the commit of client p's transaction *)
Commits(p, pc) == tx[p].pc = pc /\ tx'[p].pc # pc /\ pgRet'.err # ErrInfra

(* C19: CreateTask and UpdateTask of the PostgreSQL store take effect as a
   whole or not at all.  The tables change only when a transaction commits
   (or a user is created); a call that fails or times out before its commit
   leaves them as they were.  The commit of a CreateTask stores the task
   together with its creation entry, so no stored task is without one; the
   commit of an UpdateTask stores the new row together with its entries:
   every entry's toValue is in the row, and every field of the row that
   changed has its entry. *)
C19_AllOrNothing ==
    [][ /\ HasCreationEntry /\ HasCreationEntry'
        /\ (tblTasks' # tblTasks \/ tblTaskHistory' # tblTaskHistory)
              => \E p \in Procs : Commits(p, "ct_commit") \/ Commits(p, "ut_commit")
        /\ \A p \in Procs :
              /\ (InTx(p) /\ pgRet'.err = ErrInfra)
                    => UNCHANGED <<tblUsers, tblTasks, tblTaskHistory>>
              /\ Commits(p, "ct_commit") =>
                    \E t \in tblTasks' \ tblTasks, h \in tblTaskHistory' \ tblTaskHistory :
                        /\ tblTasks' = tblTasks \cup {t}
                        /\ tblTaskHistory' = tblTaskHistory \cup {h}
                        /\ h.TaskID = t.ID /\ h.Field = "status"
                        /\ h.FromValue = Nil /\ h.ToValue = t.Status
              /\ Commits(p, "ut_commit") =>
                    LET id == tx[p].id
                        old == CHOOSE t \in tblTasks : t.ID = id
                        new == CHOOSE t \in tblTasks' : t.ID = id
                        added == tblTaskHistory' \ tblTaskHistory
                    IN  /\ \A h \in added : h.TaskID = id /\ h.ToValue = FieldText(new, h.Field)
                        /\ \A field \in {"title", "status", "userId"} :
                              FieldText(new, field) # FieldText(old, field)
                                 => \E h \in added : h.Field = field
      ]_vars

(* an UpdateTask of task 1 failed after it had inserted a history row: the
   sequence has moved on, the row is not stored and the task is as seeded *)
C19_Witness ==
    /\ pgRet.op = "UpdateTask" /\ pgRet.id = 1 /\ pgRet.err = ErrInfra
    /\ seqs.history > Cardinality(tblTaskHistory)
    /\ pgTaskRow(1) = TaskRow(initialTasks[1])
    /\ HistoryRowsOf(1) = SeedHistory(ScanOrder({TaskRow(initialTasks[1])}), 0, 0)

--------------------------------------------------------------------------
(* Failures of the database *)

(* C20: no failure of a statement is swallowed: a PostgreSQL call in which
   a statement fails or times out returns an error to its caller, be it a
   statement of the transaction or the query of the newest history row
   that UpdateTask issues after its commit when no field changed *)
C20_FailuresAreReturned ==
    [][ \A p \in Procs :
          (PgAbort(p) \/ PgUpdateTaskLatest(p, FALSE)) => pgRet'.err = ErrInfra
      ]_vars

--------------------------------------------------------------------------
(* Starting the PostgreSQL store again *)

(* the database as the store's next start finds it *)
Database == [users |-> tblUsers, tasks |-> tblTasks, history |-> tblTaskHistory, seqs |-> seqs]

(* C21: seeding is idempotent.  In every state the PostgreSQL store reaches
   from its first start, by whatever calls, seedInitialData finds no table
   empty: run again it inserts no row, changes none and leaves the sequences
   alone, so a second start gives the state of the first *)
C21_SeedingIsIdempotent ==
    backend = "pg" =>
        /\ tblUsers # {} /\ tblTasks # {} /\ tblTaskHistory # {}
        /\ seedInitialData(Database, ScanOrder(tblTasks), clock) = Database

(* a task and a user have been created and an update recorded since the
   store was seeded *)
C21_Witness ==
    /\ backend = "pg"
    /\ Cardinality(tblTasks) = Len(initialTasks) + 1
    /\ Cardinality(tblUsers) = Len(initialUsers) + 1
    /\ \E h \in tblTaskHistory : h.FromValue # Nil
    /\ seedInitialData(Database, ScanOrder(tblTasks), clock) = Database

--------------------------------------------------------------------------
(* The in-memory store with its slices and pointers.  A cell of the heap is
   the backing array of a slice, a TaskHistoryItem a pointer refers to, or
   a string a pointer refers to; an address is an index of heap, 0 is nil.
   A Task holds the address of its LastChange, a TaskHistoryItem that of
   its FromValue.  Go strings cannot be written to, so they are values. *)

MaxHeld == 2        \* values with pointers or slices handed to the caller, at most

NilPtr == 0
Cell(kind, value) == [kind |-> kind, value |-> value]

(* new(T), make([]T, n), or a local variable whose address is taken *)
Alloc(h, cell) == [heap |-> Append(h, cell), ptr |-> Len(h) + 1]

(* copyStringPtr handing back the pointer it was given *)
copyStringPtrShared(h, value) == [heap |-> h, ptr |-> value]

copyStringPtr(h, value) ==
    IF value = NilPtr THEN [heap |-> h, ptr |-> NilPtr]
    ELSE Alloc(h, Cell("string", h[value].value))

copyUsers(h, us) == Alloc(h, Cell("users", h[us].value))

copyTask(h, task) ==
    IF task.LastChange = NilPtr THEN [heap |-> h, task |-> task]
    ELSE LET s == copyStringPtr(h, h[task.LastChange].value.FromValue)
             historyCopy == [h[task.LastChange].value EXCEPT !.FromValue = s.ptr]
             a == Alloc(s.heap, Cell("item", historyCopy))
         IN  [heap |-> a.heap, task |-> [task EXCEPT !.LastChange = a.ptr]]

(* the loop over the elements of a []Task, copying each *)
RECURSIVE copyTaskElems(_, _)
copyTaskElems(h, elems) ==
    IF elems = <<>> THEN [heap |-> h, elems |-> <<>>]
    ELSE LET c == copyTask(h, Head(elems))
             rest == copyTaskElems(c.heap, Tail(elems))
         IN  [heap |-> rest.heap, elems |-> <<c.task>> \o rest.elems]

copyTasks(h, ts) ==
    LET c == copyTaskElems(h, h[ts].value)
    IN  Alloc(c.heap, Cell("tasks", c.elems))

RECURSIVE copyHistoryElems(_, _)
copyHistoryElems(h, elems) ==
    IF elems = <<>> THEN [heap |-> h, elems |-> <<>>]
    ELSE LET s == copyStringPtr(h, Head(elems).FromValue)
             rest == copyHistoryElems(s.heap, Tail(elems))
         IN  [heap |-> rest.heap,
              elems |-> <<[Head(elems) EXCEPT !.FromValue = s.ptr]>> \o rest.elems]

copyTaskHistory(h, history) ==
    LET c == copyHistoryElems(h, IF history = NilPtr THEN <<>> ELSE h[history].value)
    IN  Alloc(c.heap, Cell("history", c.elems))

(* NewDataStore(initialUsers, initialTasks): the lists are copied, every
   task gets an empty history slice; the initial tasks have no LastChange *)
RefNewDataStore ==
    LET u == Alloc(<<>>, Cell("users", initialUsers))
        t == Alloc(u.heap, Cell("tasks", [i \in 1..Len(initialTasks) |->
                                            [initialTasks[i] EXCEPT !.LastChange = NilPtr]]))
        h1 == Alloc(t.heap, Cell("history", <<>>))
        h2 == Alloc(h1.heap, Cell("history", <<>>))
        h3 == Alloc(h2.heap, Cell("history", <<>>))
    IN  [heap |-> h3.heap,
         ds |-> [users |-> u.ptr, tasks |-> t.ptr,
                 taskHistory |-> (initialTasks[1].ID :> h1.ptr) @@ (initialTasks[2].ID :> h2.ptr)
                                    @@ (initialTasks[3].ID :> h3.ptr),
                 nextTaskID |-> nextTaskIDOf(initialTasks), nextHistID |-> 1]]

(* appendHistoryLocked: d is the heap and the store; fromValue is a pointer.
   The entry is appended to the task's slice, whose backing array is made
   when the map has no slice for the task *)
RefAppendHistoryLocked(d, taskID, actor, field, fromValue, toValue, changedAt) ==
    LET s == copyStringPtr(d.heap, fromValue)
        entry == TaskHistoryItem(d.ds.nextHistID, taskID, changedAt, actor, field, s.ptr, toValue)
        had == taskID \in DOMAIN d.ds.taskHistory
        a == IF had THEN [heap |-> s.heap, ptr |-> d.ds.taskHistory[taskID]]
             ELSE Alloc(s.heap, Cell("history", <<>>))
    IN  [heap |-> [a.heap EXCEPT ![a.ptr].value = Append(@, entry)],
         ds |-> [d.ds EXCEPT !.nextHistID = @ + 1,
                             !.taskHistory = (taskID :> a.ptr) @@ @],
         entry |-> entry]

(* the index in ds.tasks of the task with this id, 0 when there is none *)
RefFindTask(d, id) ==
    LET ts == d.heap[d.ds.tasks].value
    IN  IF \E i \in 1..Len(ts) : ts[i].ID = id
        THEN CHOOSE i \in 1..Len(ts) : ts[i].ID = id /\ \A j \in 1..(i - 1) : ts[j].ID # id
        ELSE 0

(* one field of UpdateTask whose value differs: fromValue := the old value,
   change := appendHistoryLocked(..., &fromValue, ...), latestChange = &change *)
RefChange(d, id, actor, field, oldText, newText, now) ==
    LET fromValue == Alloc(d.heap, Cell("string", oldText))
        a == RefAppendHistoryLocked([heap |-> fromValue.heap, ds |-> d.ds], id, actor, field,
                                    fromValue.ptr, newText, now)
        change == Alloc(a.heap, Cell("item", a.entry))
    IN  [heap |-> change.heap, ds |-> a.ds, latestChange |-> change.ptr]

(* the cells a returned Task refers to *)
Handed(task) == {task.LastChange} \ {NilPtr}

RefCreateTask(title, status, userID, actor) ==
    LET d0 == [heap |-> heap, ds |-> dataStore]
        task == [ID |-> dataStore.nextTaskID, Title |-> title, Status |-> status,
                 UserID |-> userID, LastChange |-> NilPtr]
        a == RefAppendHistoryLocked([d0 EXCEPT !.ds.nextTaskID = @ + 1], task.ID,
                                    normalizeActor(actor), "status", NilPtr, status, clock)
        history == Alloc(a.heap, Cell("item", a.entry))
        stored == [task EXCEPT !.LastChange = history.ptr]
        appended == [history.heap EXCEPT ![a.ds.tasks].value = Append(@, stored)]
        c == copyTask(appended, stored)
    IN
    /\ backend = "refs"
    /\ IF ~isValidTaskStatus(status)
          \/ ~\E i \in 1..Len(heap[dataStore.users].value) : heap[dataStore.users].value[i].ID = userID
       THEN UNCHANGED <<heap, dataStore, held>>
       ELSE /\ Cardinality(held) < MaxHeld
            /\ heap' = c.heap
            /\ dataStore' = a.ds
            /\ held' = held \cup Handed(c.task)
    /\ UNCHANGED <<backend, clock>> /\ UNCHANGED <<memVars, pgVars, gatewayVars, startVars>>

RefUpdateTask(id, update, actor) ==
    LET d0 == [heap |-> heap, ds |-> dataStore, latestChange |-> NilPtr]
        idx == RefFindTask(d0, id)
        old == heap[dataStore.tasks].value[idx]
        now == clock
        normalizedActor == normalizeActor(actor)
        d1 == IF update.Title # Nil /\ old.Title # update.Title[1]
              THEN RefChange(d0, id, normalizedActor, "title", old.Title, update.Title[1], now)
              ELSE d0
        d2 == IF update.Status # Nil /\ old.Status # update.Status[1]
              THEN RefChange(d1, id, normalizedActor, "status", old.Status, update.Status[1], now)
              ELSE d1
        d3 == IF update.UserID # Nil /\ old.UserID # update.UserID[1]
              THEN RefChange(d2, id, normalizedActor, "userId", Itoa(old.UserID),
                             Itoa(update.UserID[1]), now)
              ELSE d2
        updated == [ID |-> old.ID,
                    Title |-> IF update.Title # Nil THEN update.Title[1] ELSE old.Title,
                    Status |-> IF update.Status # Nil THEN update.Status[1] ELSE old.Status,
                    UserID |-> IF update.UserID # Nil THEN update.UserID[1] ELSE old.UserID,
                    LastChange |-> IF d3.latestChange # NilPtr THEN d3.latestChange
                                   ELSE old.LastChange]
        written == [d3.heap EXCEPT ![dataStore.tasks].value[idx] = updated]
        c == copyTask(written, updated)
    IN
    /\ backend = "refs"
    /\ IF \/ idx = 0
          \/ update.Status # Nil /\ ~isValidTaskStatus(update.Status[1])
          \/ update.UserID # Nil
               /\ ~\E i \in 1..Len(heap[dataStore.users].value) :
                      heap[dataStore.users].value[i].ID = update.UserID[1]
       THEN UNCHANGED <<heap, dataStore, held>>
       ELSE /\ Cardinality(held) < MaxHeld
            /\ heap' = c.heap
            /\ dataStore' = d3.ds
            /\ held' = held \cup Handed(c.task)
    /\ UNCHANGED <<backend, clock>> /\ UNCHANGED <<memVars, pgVars, gatewayVars, startVars>>

RefGetUsers ==
    LET c == copyUsers(heap, dataStore.users)
    IN
    /\ backend = "refs"
    /\ Cardinality(held) < MaxHeld
    /\ heap' = c.heap
    /\ held' = held \cup {c.ptr}
    /\ UNCHANGED <<backend, clock, dataStore>> /\ UNCHANGED <<memVars, pgVars, gatewayVars, startVars>>

(* GetTasks: the tasks that pass the filters are copied into a new slice *)
RefGetTasks(status, userID) ==
    LET passing == IF userID # <<>> /\ ~AtoiOk(userID) THEN <<>>
                   ELSE SelectSeq(heap[dataStore.tasks].value, LAMBDA task :
                           /\ (status = "" \/ task.Status = status)
                           /\ (userID = <<>> \/ task.UserID = Atoi(userID)))
        c == copyTaskElems(heap, passing)
        filtered == Alloc(c.heap, Cell("tasks", c.elems))
    IN
    /\ backend = "refs"
    /\ Cardinality(held) < MaxHeld
    /\ heap' = filtered.heap
    /\ held' = held \cup {filtered.ptr}
    /\ UNCHANGED <<backend, clock, dataStore>> /\ UNCHANGED <<memVars, pgVars, gatewayVars, startVars>>

(* GetTaskHistory: the task's slice is copied and the copy reversed *)
RefGetTaskHistory(taskID) ==
    LET c == copyTaskHistory(heap, IF taskID \in DOMAIN dataStore.taskHistory
                                   THEN dataStore.taskHistory[taskID] ELSE NilPtr)
        history == [c.heap EXCEPT ![c.ptr].value = Reverse(@)]
    IN
    /\ backend = "refs"
    /\ IF RefFindTask([heap |-> heap, ds |-> dataStore], taskID) = 0
       THEN UNCHANGED <<heap, held>>
       ELSE /\ Cardinality(held) < MaxHeld
            /\ heap' = history
            /\ held' = held \cup {c.ptr}
    /\ UNCHANGED <<backend, clock, dataStore>> /\ UNCHANGED <<memVars, pgVars, gatewayVars, startVars>>

(* the cells a cell refers to *)
Refs(h, a) ==
    LET c == h[a]
    IN  IF c.kind = "item" THEN {c.value.FromValue} \ {NilPtr}
        ELSE IF c.kind = "tasks" THEN {c.value[i].LastChange : i \in 1..Len(c.value)} \ {NilPtr}
        ELSE IF c.kind = "history" THEN {c.value[i].FromValue : i \in 1..Len(c.value)} \ {NilPtr}
        ELSE {}

(* the cells that can be reached from these: a slice of tasks leads to
   items, an item to a string *)
Reach(h, roots) ==
    LET r1 == roots \cup UNION {Refs(h, a) : a \in roots}
    IN  r1 \cup UNION {Refs(h, a) : a \in r1}

(* what a caller can write into a cell it can reach: every element of a
   slice, every field of a struct, the string a pointer refers to *)
Overwritten(c) ==
    IF c.kind = "string" THEN Cell("string", "overwritten")
    ELSE IF c.kind = "item"
    THEN Cell("item", [c.value EXCEPT !.ToValue = "overwritten", !.Field = "overwritten",
                                        !.ChangedBy = <<>>, !.FromValue = NilPtr])
    ELSE IF c.kind = "users"
    THEN Cell("users", [i \in 1..Len(c.value) |-> [c.value[i] EXCEPT !.Name = "overwritten"]])
    ELSE IF c.kind = "tasks"
    THEN Cell("tasks", [i \in 1..Len(c.value) |->
                          [c.value[i] EXCEPT !.Title = "overwritten", !.Status = "overwritten",
                                             !.LastChange = NilPtr]])
    ELSE Cell("history", [i \in 1..Len(c.value) |->
                            [c.value[i] EXCEPT !.ToValue = "overwritten", !.FromValue = NilPtr]])

(* the caller writes into a value it was handed *)
CallerWrites(a) ==
    /\ backend = "refs"
    /\ a \in Reach(heap, held)
    /\ heap[a] # Overwritten(heap[a])
    /\ heap' = [heap EXCEPT ![a] = Overwritten(@)]
    /\ UNCHANGED <<backend, clock, dataStore, held>> /\ UNCHANGED <<memVars, pgVars, gatewayVars, startVars>>

InitRefs ==
    /\ backend = "refs"
    /\ clock = 0
    /\ LET ds == NewDataStore(initialUsers, initialTasks)
       IN  /\ users = ds.users
           /\ tasks = ds.tasks
           /\ taskHistory = ds.taskHistory
           /\ nextUserID = ds.nextUserID
           /\ nextTaskID = ds.nextTaskID
           /\ nextHistID = ds.nextHistID
    /\ memRet = NoRet
    /\ LET db == seedInitialData(EmptyDB, ScanOrder({TaskRow(t) : t \in Range(initialTasks)}), clock)
         IN  /\ tblUsers = db.users
             /\ tblTasks = db.tasks
             /\ tblTaskHistory = db.history
             /\ seqs = db.seqs
    /\ lock = [p \in Procs |-> 0]
    /\ tx = [p \in Procs |-> IdleTx]
    /\ pgRet = NoRet
    /\ heap = RefNewDataStore.heap /\ dataStore = RefNewDataStore.ds /\ held = {}
    /\ GatewayIdle /\ StartupDone

NextRefs ==
    \/ \E title \in TitleInputs, status \in StatusInputs, userID \in UserIDInputs,
          actor \in UpdateActorInputs : RefCreateTask(title, status, userID, actor)
    \/ \E id \in TaskIDInputs, update \in TaskUpdate, actor \in UpdateActorInputs :
          RefUpdateTask(id, update, actor)
    \/ RefGetUsers
    \/ \E status \in StatusFilters, userID \in UserIDFilters : RefGetTasks(status, userID)
    \/ \E taskID \in TaskIDInputs : RefGetTaskHistory(taskID)
    \/ \E a \in 1..Len(heap) : CallerWrites(a)

SpecRefs == InitRefs /\ [][NextRefs]_vars

(* what the reads of the store return, pointers followed *)
StringAt(h, p) == IF p = NilPtr THEN Nil ELSE Some(h[p].value)
ItemAt(h, p) == IF p = NilPtr THEN Nil ELSE Some([h[p].value EXCEPT !.FromValue = StringAt(h, @)])
StoreData(h, s) ==
    [users |-> h[s.users].value,
     tasks |-> [i \in 1..Len(h[s.tasks].value) |->
                  [h[s.tasks].value[i] EXCEPT !.LastChange = ItemAt(h, @)]],
     history |-> [id \in DOMAIN s.taskHistory |->
                    [i \in 1..Len(h[s.taskHistory[id]].value) |->
                       [h[s.taskHistory[id]].value[i] EXCEPT !.FromValue = StringAt(h, @)]]]]

StoreCells == Reach(heap, {dataStore.users, dataStore.tasks}
                             \cup {dataStore.taskHistory[id] : id \in DOMAIN dataStore.taskHistory})

(* C22: what the in-memory store returns is a deep copy.  No cell a caller
   can reach from a value it was handed by GetUsers, GetTasks,
   GetTaskHistory, CreateTask or UpdateTask is a cell of the store, and
   whatever the caller writes into such a value, the data the store's reads
   return afterwards are what they were *)
C22_ReturnsDeepCopies ==
    [][ /\ (Reach(heap, held) \cap StoreCells = {})'
        /\ (\E a \in 1..Len(heap) : CallerWrites(a))
              => StoreData(heap', dataStore') = StoreData(heap, dataStore)
      ]_vars

(* the caller has overwritten the fromValue and the lastChange it got from
   an update of task 1, whose history still has the entry as recorded *)
C22_Witness ==
    /\ backend = "refs"
    /\ \E a, b \in Reach(heap, held) :
          /\ heap[a] = Cell("string", "overwritten")
          /\ heap[b].kind = "item" /\ heap[b].value.ToValue = "overwritten"
    /\ \E e \in Range(StoreData(heap, dataStore).history[1]) :
          e.FromValue = Some("pending") /\ e.ToValue = "completed"
    /\ StoreData(heap, dataStore).tasks[1].LastChange # Nil
    /\ StoreData(heap, dataStore).tasks[1].LastChange[1].FromValue = Some("pending")

--------------------------------------------------------------------------
(* The ids of the history entries *)

(* every entry written so far and not rolled back: in memory the entries
   of all tasks, in PostgreSQL the committed rows and the rows inserted by
   the running transactions *)
Recorded ==
    IF backend = "mem"
    THEN UNION {Range(taskHistory[id]) : id \in DOMAIN taskHistory}
    ELSE tblTaskHistory \cup UNION {tx[p].rows : p \in Procs}

(* the number of entries written so far and not rolled back *)
NRecorded ==
    IF backend = "mem"
    THEN Sum([id \in DOMAIN taskHistory |-> Len(taskHistory[id])], DOMAIN taskHistory)
    ELSE Cardinality(tblTaskHistory) + Sum([p \in Procs |-> Cardinality(tx[p].rows)], Procs)

(* the largest id handed out so far, rolled back entries included *)
LastHistID == IF backend = "mem" THEN nextHistID - 1 ELSE seqs.history

(* C23: the ids of the history entries are unique across the whole store
   and strictly increasing in the order the entries are written, however
   CreateTask and UpdateTask calls on whatever tasks interleave: no two
   entries have one id, and an entry written by a step has an id larger
   than that of every entry written before, also of the entries a failed
   call wrote and rolled back, so no id is used again *)
C23_HistoryIDsIncrease ==
    [][ /\ Cardinality({e.ID : e \in Recorded'}) = NRecorded'
        /\ \A e \in Recorded' : e.ID >= 1
        /\ \A new \in Recorded' \ Recorded :
              /\ new.ID > LastHistID
              /\ \A old \in Recorded : new.ID > old.ID
        /\ \A id \in DOMAIN taskHistory' : \A i, j \in 1..Len(taskHistory'[id]) :
              i < j => taskHistory'[id][i].ID < taskHistory'[id][j].ID
      ]_vars

(* two PostgreSQL transactions are running, each with a row of its own
   inserted and not yet committed *)
C23_Witness ==
    /\ backend = "pg"
    /\ \A p \in Procs : tx[p].rows # {}
    /\ \E p, q \in Procs : tx[p].op = "CreateTask" /\ tx[q].op = "UpdateTask"

--------------------------------------------------------------------------
(* The history as a log *)

IsPrefix(a, b) == Len(a) <= Len(b) /\ \A i \in 1..Len(a) : a[i] = b[i]

(* the history of a task as GetTaskHistory returns it, oldest entry first *)
Log(taskID) == Reverse(GetTaskHistoryOf(taskID).history)

(* C24: the history is an append-only log.  No step removes an entry that
   was recorded or alters one of its attributes; a step leaves the history
   of a task, in the order of recording, as it was or extends it at its
   end: what GetTaskHistory returned before the step, newest entry first,
   is the tail of what it returns after it, so read from the oldest entry
   the earlier history is a prefix of the later *)
C24_HistoryIsAppendOnly ==
    [][ /\ TaskIDs \subseteq TaskIDs'
        /\ taskHistory' # taskHistory =>
              \A id \in DOMAIN taskHistory :
                  id \in DOMAIN taskHistory' /\ IsPrefix(taskHistory[id], taskHistory'[id])
        /\ tblTaskHistory' # tblTaskHistory => tblTaskHistory \subseteq tblTaskHistory'
        /\ (taskHistory' # taskHistory \/ tblTaskHistory' # tblTaskHistory) =>
              \A id \in TaskIDs :
                  /\ EntriesOf(id) \subseteq EntriesOf(id)'
                  /\ \A new \in EntriesOf(id)' \ EntriesOf(id) :
                        \A old \in EntriesOf(id) : new.ID > old.ID
                  /\ EntriesOf(id)' # EntriesOf(id) =>
                        LET before == GetTaskHistoryOf(id).history
                            after == GetTaskHistoryOf(id)'.history
                            n == Len(after) - Len(before)
                        IN  n >= 0 /\ \A i \in 1..Len(before) : before[i] = after[n + i]
      ]_vars

(* task 1 has been updated twice: the entry of the first update stands
   before that of the second, after the seeded entry *)
C24_Witness ==
    /\ backend = "pg"
    /\ Len(Log(1)) = 3
    /\ Log(1)[1].FromValue = Nil
    /\ Log(1)[2].ChangedBy # Log(1)[1].ChangedBy
    /\ Log(1)[3].FromValue = Some(Log(1)[2].ToValue)
    /\ pgRet.op = "UpdateTask" /\ pgRet.err = ErrNone

--------------------------------------------------------------------------
(* What an update leaves alone *)

(* new is old with the fields the update names set and the others kept *)
OnlyNamedFields(old, new, update) ==
    /\ new.ID = old.ID
    /\ new.Title = IF update.Title # Nil THEN update.Title[1] ELSE old.Title
    /\ new.Status = IF update.Status # Nil THEN update.Status[1] ELSE old.Status
    /\ new.UserID = IF update.UserID # Nil THEN update.UserID[1] ELSE old.UserID

(* C25: a successful UpdateTask(id, update) touches only what it names.
   The fields of task id that the update leaves out keep their values, the
   fields it names get theirs; every other task (its lastChange included),
   the history of every other task and every user are as they were.  In
   the PostgreSQL store this is the step in which the call commits. *)
C25_UpdateTouchesOnlyNamed ==
    [][ /\ (memRet'.op = "UpdateTask" /\ memRet'.err = ErrNone) =>
              LET idx == FindTask(memRet'.id)
              IN  /\ OnlyNamedFields(tasks[idx], tasks'[idx], memRet'.update)
                  /\ OnlyNamedFields(tasks[idx], memRet'.task[1], memRet'.update)
                  /\ Len(tasks') = Len(tasks)
                  /\ \A i \in 1..Len(tasks) : i # idx => tasks'[i] = tasks[i]
                  /\ DOMAIN taskHistory' = DOMAIN taskHistory
                  /\ \A t \in DOMAIN taskHistory :
                        t # memRet'.id => taskHistory'[t] = taskHistory[t]
                  /\ users' = users
        /\ \A p \in Procs : Commits(p, "ut_commit") =>
              LET id == tx[p].id
                  old == CHOOSE t \in tblTasks : t.ID = id
                  new == CHOOSE t \in tblTasks' : t.ID = id
              IN  /\ OnlyNamedFields(old, new, tx[p].update)
                  /\ pgRet'.op = "UpdateTask" => OnlyNamedFields(old, pgRet'.task[1], tx[p].update)
                  /\ tblTasks' \ {new} = tblTasks \ {old}
                  /\ {h \in tblTaskHistory' : h.TaskID # id} = {h \in tblTaskHistory : h.TaskID # id}
                  /\ tblUsers' = tblUsers
      ]_vars

(* an update of the status of task 1 alone has returned from the
   PostgreSQL store: the task has the new status and its old title and user *)
C25_Witness ==
    /\ pgRet.op = "UpdateTask" /\ pgRet.err = ErrNone /\ pgRet.id = 1
    /\ pgRet.update = Update(Nil, Some("completed"), Nil)
    /\ pgTaskRow(1) = [TaskRow(initialTasks[1]) EXCEPT !.Status = "completed"]
    /\ pgTaskRow(2) = TaskRow(initialTasks[2])


(***************************************************************************)
(* The rate limiter of the Node gateway (middleware/rateLimit.js).  One    *)
(* limiter is one closure over buckets and lastCleanupAt; routes/index.js  *)
(* creates one for /auth and one for /api, each with its own buckets, so   *)
(* one of them is modelled.  A key is what keyGenerator returns for the    *)
(* request.  Date.now() is taken never to run backwards.  The time unit of *)
(* the model is the millisecond; windowMs and maxRequests are the          *)
(* configured values scaled down.                                          *)
(***************************************************************************)
MaxNow == 4
MaxSent == 5
enabled == TRUE
windowMs == 2
maxRequests == 2

(* Math.ceil(a / b) for b > 0 *)
MathCeil(a, b) == (a + b - 1) \div b
MathMax(a, b) == IF a >= b THEN a ELSE b

Advance ==
    /\ dateNow < MaxNow
    /\ dateNow' = dateNow + 1
    /\ UNCHANGED <<buckets, lastCleanupAt, res, sent>>
    /\ UNCHANGED <<backend, clock, memVars, pgVars, copyVars, startVars>>

ExpiredAlways(bucket, now) == TRUE

(* bucket.resetAt <= now *)
Expired(bucket, now) == bucket.resetAt <= now

(* the sweep over buckets.entries() *)
Cleanup(bs, now) ==
    [k \in Keys |-> IF bs[k] # Nil /\ Expired(bs[k][1], now) THEN Nil ELSE bs[k]]

(* the middleware createRateLimiter returns, for a request whose key is key *)
rateLimiter(key) ==
    /\ Len(sent) < MaxSent
    /\ LET now == dateNow
           sweep == now - lastCleanupAt > windowMs
           swept == IF sweep THEN Cleanup(buckets, now) ELSE buckets
           fresh == swept[key] = Nil \/ Expired(swept[key][1], now)
           bucket0 == IF fresh THEN [count |-> 0, resetAt |-> now + windowMs]
                      ELSE swept[key][1]
           bucket == [bucket0 EXCEPT !.count = @ + 1]
           retryAfterSeconds == MathMax(MathCeil(bucket.resetAt - now, 1000), 1)
           answer ==
               IF ~enabled
               THEN [key |-> key, status |-> 0, next |-> TRUE, retryAfter |-> Nil]
               ELSE IF bucket.count > maxRequests
               THEN [key |-> key, status |-> 429, next |-> FALSE,
                     retryAfter |-> Some(retryAfterSeconds)]
               ELSE [key |-> key, status |-> 0, next |-> TRUE, retryAfter |-> Nil]
       IN  /\ buckets' = IF enabled THEN [swept EXCEPT ![key] = Some(bucket)] ELSE buckets
           /\ lastCleanupAt' = IF enabled /\ sweep THEN now ELSE lastCleanupAt
           /\ res' = answer
           /\ sent' = Append(sent, [key |-> key, at |-> now, res |-> answer])
    /\ UNCHANGED dateNow
    /\ UNCHANGED <<backend, clock, memVars, pgVars, copyVars, startVars>>

InitGateway ==
    /\ backend = "gateway"
    /\ clock = 0
    /\ LET ds == NewDataStore(initialUsers, initialTasks)
       IN  /\ users = ds.users
           /\ tasks = ds.tasks
           /\ taskHistory = ds.taskHistory
           /\ nextUserID = ds.nextUserID
           /\ nextTaskID = ds.nextTaskID
           /\ nextHistID = ds.nextHistID
    /\ memRet = NoRet
    /\ LET db == seedInitialData(EmptyDB, ScanOrder({TaskRow(t) : t \in Range(initialTasks)}), clock)
         IN  /\ tblUsers = db.users
             /\ tblTasks = db.tasks
             /\ tblTaskHistory = db.history
             /\ seqs = db.seqs
    /\ lock = [p \in Procs |-> 0]
    /\ tx = [p \in Procs |-> IdleTx]
    /\ pgRet = NoRet
    /\ heap = <<>> /\ dataStore = NoDataStore /\ held = {}
    /\ GatewayIdle /\ StartupDone

NextGateway ==
    \/ Advance
    \/ \E key \in Keys : rateLimiter(key)

SpecGateway == InitGateway /\ [][NextGateway]_vars

(* the window a key is in and what it has used of it after the first i
   requests that reached the limiter: a window opens with the first request
   of the key, or with its first request after the window before has expired *)
RECURSIVE Budget(_, _)
Budget(key, i) ==
    IF i = 0 THEN [start |-> Nil, used |-> 0]
    ELSE LET b == Budget(key, i - 1)
             r == sent[i]
         IN  IF r.key # key THEN b
             ELSE IF b.start = Nil \/ r.at >= b.start[1] + windowMs
             THEN [start |-> Some(r.at), used |-> 1]
             ELSE [b EXCEPT !.used = @ + 1]

(* C26: per key and per window of windowMs the first maxRequests requests are
   passed on, every further one of the window is answered 429 with a
   Retry-After header and is not passed on, the count starts again once the
   window has expired, and a key's budget is used by its own requests only *)
C26_RateLimitPerKeyAndWindow ==
    \A i \in 1..Len(sent) :
        LET r == sent[i]
            within == Budget(r.key, i).used <= maxRequests
        IN  /\ r.res.next = within
            /\ within => r.res.status # 429 /\ r.res.retryAfter = Nil
            /\ ~within => /\ r.res.status = 429
                          /\ r.res.retryAfter # Nil /\ r.res.retryAfter[1] >= 1

C26_Witness ==
    \E i, j, k \in 1..Len(sent) :
        /\ i < j /\ j < k
        /\ sent[i].key = "a" /\ ~sent[i].res.next
        /\ sent[j].key = "b" /\ sent[j].res.next /\ sent[j].at = sent[i].at
        /\ sent[k].key = "a" /\ sent[k].res.next
        /\ res = sent[k].res
        /\ lastCleanupAt > 0


--------------------------------------------------------------------------
(* The order of a task's history *)

(* b stands before a in ORDER BY changed_at DESC, id DESC *)
RetrievedBefore(b, a) ==
    b.ChangedAt > a.ChangedAt \/ (b.ChangedAt = a.ChangedAt /\ b.ID > a.ID)

(* C27: for any one task the retrieval order (changedAt, id) agrees with the
   order of recording: an entry a step records for a task has a larger id
   and a changedAt that is not older than every entry recorded for that task
   before, whether seeding, CreateTask or an UpdateTask running beside other
   calls recorded them, and the entries one in-memory call appends are in
   that order too *)
C27_OrderOfRecording ==
    [][ /\ \A b \in Recorded' \ Recorded : \A a \in Recorded :
              a.TaskID = b.TaskID =>
                  /\ a.ChangedAt <= b.ChangedAt
                  /\ a.ID < b.ID
                  /\ RetrievedBefore(b, a)
        /\ \A id \in DOMAIN taskHistory' : \A i, j \in 1..Len(taskHistory'[id]) :
              i < j => /\ taskHistory'[id][i].ChangedAt <= taskHistory'[id][j].ChangedAt
                       /\ RetrievedBefore(taskHistory'[id][j], taskHistory'[id][i])
      ]_vars

(* an UpdateTask of the seeded task 1 has inserted an entry later than the
   seeded one while the other client's CreateTask has its entry inserted
   and not committed *)
C27_Witness ==
    /\ backend = "pg"
    /\ \E p, q \in Procs :
          /\ tx[p].op = "CreateTask" /\ tx[p].rows # {}
          /\ tx[q].op = "UpdateTask" /\ tx[q].id = 1
          /\ \E b \in tx[q].rows : \E a \in tblTaskHistory :
                /\ a.TaskID = 1 /\ a.FromValue = Nil
                /\ b.TaskID = 1 /\ b.ChangedAt > a.ChangedAt


--------------------------------------------------------------------------
(* Progress of the PostgreSQL transactions.  Here the call of UpdateTask    *)
(* and its SELECT ... FOR UPDATE are two steps, so that a call waiting for  *)
(* a row lock is a state: between them the call has begun its transaction   *)
(* and holds nothing.                                                       *)

(* Inputs: two seeded tasks; updates that record two entries, one entry,
   a userId entry (or, for task 2, nothing) and one with an invalid status.
   The values entries are stamped with play no part here, so the clock
   stands still. *)
LockTaskIDs == {1, 2}
LockUpdates ==
    { Update(Some("New"), Some("completed"), Nil),
      Update(Nil, Some("completed"), Nil),
      Update(Nil, Nil, Some(2)),
      Update(Some("New"), Some("bogus"), Nil) }

(* UpdateTask up to BeginTx: the status is validated, the transaction begun *)
PgUpdateTaskCall(p, id, update, actor) ==
    /\ backend = "pg" /\ CanStart(p)
    /\ HistRoom >= Fields(update)
    /\ IF update.Status # Nil /\ ~isValidTaskStatus(update.Status[1])
       THEN /\ pgRet' = Ret("UpdateTask", id, update, actor, ErrInvalidTaskStatus, Nil)
            /\ UNCHANGED tx
       ELSE /\ tx' = [tx EXCEPT ![p] = [IdleTx EXCEPT !.pc = "ut_select", !.op = "UpdateTask",
                                                      !.id = id, !.update = update,
                                                      !.actor = actor]]
            /\ pgRet' = NoRet
    /\ UNCHANGED <<tblUsers, tblTasks, tblTaskHistory, seqs, lock>>
    /\ PgFrame

(* SELECT id, title, status, user_id FROM tasks WHERE id = $1 FOR UPDATE:
   no row is ErrTaskNotFound; while another transaction holds the row's
   lock the statement waits; then it locks the row and reads it *)
PgUpdateTaskSelect(p) ==
    /\ backend = "pg" /\ tx[p].pc = "ut_select"
    /\ IF ~pgTaskExists(tx[p].id)
       THEN PgReturn(p, ErrTaskNotFound, Nil)
       ELSE /\ \A q \in Procs : lock[q] # tx[p].id
            /\ lock' = [lock EXCEPT ![p] = tx[p].id]
            /\ LET w == [tx[p] EXCEPT !.current = Some(pgTaskRow(tx[p].id)),
                                      !.prior = LatestHistory(tx[p].id)]
               IN  tx' = [tx EXCEPT ![p] = [w EXCEPT !.pc = IF w.update.UserID # Nil
                                                            THEN "ut_user"
                                                            ELSE NextStatement(w, 1)]]
            /\ pgRet' = NoRet
    /\ UNCHANGED <<tblUsers, tblTasks, tblTaskHistory, seqs>>
    /\ PgFrame

(* a statement of a begun call other than the SELECT ... FOR UPDATE: none
   of them waits for another transaction *)
PgStatement(p) ==
    \/ PgCreateTaskInsert(p)
    \/ PgCreateTaskHistory(p)
    \/ PgCreateTaskCommit(p)
    \/ PgUpdateTaskCheckUser(p)
    \/ PgUpdateTaskTitle(p)
    \/ PgUpdateTaskStatus(p)
    \/ PgUpdateTaskUserID(p)
    \/ PgUpdateTaskCommit(p)
    \/ \E ok \in BOOLEAN : PgUpdateTaskLatest(p, ok)

InitFair == Init /\ backend = "pg"

NextFair ==
    \E p \in Procs :
          \/ \E title \in TitleInputs, userID \in UserIDInputs :
                PgCreateTaskBegin(p, title, "completed", userID, <<" ">>)
          \/ \E id \in LockTaskIDs, update \in LockUpdates, actor \in UpdateActorInputs :
                PgUpdateTaskCall(p, id, update, actor)
          \/ PgUpdateTaskSelect(p)
          \/ PgStatement(p)
          \/ PgAbort(p)

(* The database and the Go runtime run every begun call's next statement;
   a transaction waiting for a row lock is queued by PostgreSQL and gets
   the lock once it is free often enough.  Clients need not call, and no
   statement need fail. *)
Fairness ==
    \A p \in Procs : WF_vars(PgStatement(p)) /\ SF_vars(PgUpdateTaskSelect(p))

SpecFair == InitFair /\ [][NextFair]_vars /\ Fairness

Waiting(p) == tx[p].pc = "ut_select" /\ pgTaskExists(tx[p].id)

(* C28: a transaction holds at most the row lock of the task its UpdateTask
   names and CreateTask holds none, so a call waits only while another
   transaction holds the row of its own task: updates of different tasks do
   not block one another, no call waits for a call that waits, and with
   fair scheduling every begun UpdateTask or CreateTask commits or returns
   an error, whatever the other client is doing *)
C28_CallsMakeProgress ==
    /\ [](\A p \in Procs :
            /\ lock[p] # 0 => tx[p].op = "UpdateTask" /\ lock[p] = tx[p].id
            /\ tx[p].op = "CreateTask" => lock[p] = 0
            /\ Waiting(p) => lock[p] = 0
            /\ (Waiting(p) /\ \A q \in Procs : lock[q] # tx[p].id)
                  => ENABLED <<PgUpdateTaskSelect(p)>>_vars
            /\ (tx[p].pc # "idle" /\ ~Waiting(p))
                  => ENABLED <<PgStatement(p) \/ PgUpdateTaskSelect(p)>>_vars)
    /\ \A p \in Procs : (tx[p].pc # "idle") ~> (tx[p].pc = "idle")

(* both clients are inside an UpdateTask, each holding the row of a
   different task with an entry inserted *)
C28_Witness ==
    /\ backend = "pg"
    /\ lock[1] # 0 /\ lock[2] # 0 /\ lock[1] # lock[2]
    /\ tx[1].rows # {} /\ tx[2].rows # {}

(* one client waits for the row the other one holds *)
C28_WitnessWaiting ==
    /\ backend = "pg"
    /\ \E p, q \in Procs : Waiting(p) /\ lock[q] = tx[p].id


--------------------------------------------------------------------------
(* Start-up of the PostgreSQL store: NewPostgresStore and pingWithRetry.   *)
(* A ping either succeeds or fails with one of two errors, so that the     *)
(* last failure can differ from the ones before it.                        *)

dbPingRetries == 20
PingErrors == {"refused", "deadline"}
StartErr(msg, wraps) == Some([msg |-> msg, wraps |-> wraps])

OtherVarsUnchanged ==
    UNCHANGED <<backend, clock, memVars, pgVars, copyVars, gatewayVars>>

(* the loop runs one attempt less *)
MoreAttemptsOneLess(a) == a < dbPingRetries

(* the loop condition attempt <= dbPingRetries *)
MoreAttempts(a) == a <= dbPingRetries

(* NewPostgresStore up to the call of pingWithRetry: the DSN check, sql.Open *)
NewPostgresStoreOpen(dsnBlank, openErr) ==
    /\ startup = "new"
    /\ IF dsnBlank
       THEN /\ startup' = "failed"
            /\ startRet' = StartErr("POSTGRES_DSN is required", Nil)
            /\ UNCHANGED dbOpen
       ELSE IF openErr
       THEN /\ startup' = "failed"
            /\ startRet' = StartErr("open postgres connection", Some("open"))
            /\ UNCHANGED dbOpen
       ELSE /\ startup' = IF MoreAttempts(1) THEN "ping" ELSE "exhausted"
            /\ dbOpen' = TRUE
            /\ UNCHANGED startRet
    /\ attempt' = 1
    /\ UNCHANGED <<lastErr, pinged, ran>>
    /\ OtherVarsUnchanged

(* one pass of the loop up to the test of err: db.PingContext(ctx) returns
   outcome; nil ends pingWithRetry with nil *)
PingContext(outcome) ==
    /\ startup = "ping"
    /\ pinged' = [n |-> pinged.n + 1,
                  ok |-> pinged.ok + (IF outcome = "ok" THEN 1 ELSE 0),
                  last |-> outcome]
    /\ IF outcome = "ok"
       THEN startup' = "pinged" /\ UNCHANGED lastErr
       ELSE startup' = "sleep" /\ lastErr' = Some(outcome)
    /\ UNCHANGED <<attempt, dbOpen, ran, startRet>>
    /\ OtherVarsUnchanged

(* time.Sleep(1 * time.Second), attempt++ and the loop condition *)
Sleep ==
    /\ startup = "sleep"
    /\ attempt' = attempt + 1
    /\ startup' = IF MoreAttempts(attempt + 1) THEN "ping" ELSE "exhausted"
    /\ UNCHANGED <<lastErr, dbOpen, pinged, ran, startRet>>
    /\ OtherVarsUnchanged

(* pingWithRetry returns the wrapped last error; NewPostgresStore closes
   the pool and returns that error *)
PingGivesUp ==
    /\ startup = "exhausted"
    /\ dbOpen' = FALSE
    /\ startRet' = StartErr("ping postgres after retries", lastErr)
    /\ startup' = "failed"
    /\ UNCHANGED <<attempt, lastErr, pinged, ran>>
    /\ OtherVarsUnchanged

(* ps.initSchema() *)
InitSchemaStep(ok) ==
    /\ startup = "pinged"
    /\ IF ok
       THEN /\ ran' = ran \cup {"initSchema"}
            /\ startup' = "schema"
            /\ UNCHANGED <<dbOpen, startRet>>
       ELSE /\ dbOpen' = FALSE
            /\ startRet' = StartErr("initialize schema", Some("schema"))
            /\ startup' = "failed"
            /\ UNCHANGED ran
    /\ UNCHANGED <<attempt, lastErr, pinged>>
    /\ OtherVarsUnchanged

(* ps.seedInitialData() and the return of the store *)
SeedStep(ok) ==
    /\ startup = "schema"
    /\ IF ok
       THEN /\ ran' = ran \cup {"seedInitialData"}
            /\ startup' = "ready"
            /\ UNCHANGED <<dbOpen, startRet>>
       ELSE /\ dbOpen' = FALSE
            /\ startRet' = StartErr("seed initial data", Some("seed"))
            /\ startup' = "failed"
            /\ UNCHANGED ran
    /\ UNCHANGED <<attempt, lastErr, pinged>>
    /\ OtherVarsUnchanged

InitStartup ==
    /\ backend = "startup"
    /\ clock = 0
    /\ LET ds == NewDataStore(initialUsers, initialTasks)
       IN  /\ users = ds.users
           /\ tasks = ds.tasks
           /\ taskHistory = ds.taskHistory
           /\ nextUserID = ds.nextUserID
           /\ nextTaskID = ds.nextTaskID
           /\ nextHistID = ds.nextHistID
    /\ memRet = NoRet
    /\ tblUsers = {} /\ tblTasks = {} /\ tblTaskHistory = {}
    /\ seqs = EmptyDB.seqs
    /\ lock = [p \in Procs |-> 0]
    /\ tx = [p \in Procs |-> IdleTx]
    /\ pgRet = NoRet
    /\ heap = <<>> /\ dataStore = NoDataStore /\ held = {}
    /\ GatewayIdle
    /\ startup = "new" /\ attempt = 1 /\ lastErr = Nil /\ dbOpen = FALSE
    /\ pinged = [n |-> 0, ok |-> 0, last |-> "none"]
    /\ ran = {}
    /\ startRet = Nil

NextStartup ==
    \/ \E dsnBlank, openErr \in BOOLEAN : NewPostgresStoreOpen(dsnBlank, openErr)
    \/ \E outcome \in {"ok"} \cup PingErrors : PingContext(outcome)
    \/ Sleep
    \/ PingGivesUp
    \/ \E ok \in BOOLEAN : InitSchemaStep(ok)
    \/ \E ok \in BOOLEAN : SeedStep(ok)

SpecStartup == InitStartup /\ [][NextStartup]_vars

PingFailure == startRet # Nil /\ startRet[1].msg = "ping postgres after retries"

(* C29: the start-up ping is bounded.  A successful ping is the last one
   made and pingWithRetry goes on to nothing but its return; never more
   than dbPingRetries pings are made; pingWithRetry fails only after
   exactly dbPingRetries pings that all failed, with an error wrapping
   the last of the failures, and NewPostgresStore then has closed the
   connection, returned that error and run neither the schema creation nor
   the seeding *)
C29_PingIsBounded ==
    /\ pinged.n <= dbPingRetries
    /\ pinged.ok <= 1
    /\ pinged.ok = 1 => /\ pinged.last = "ok"
                        /\ startup \notin {"ping", "sleep", "exhausted"}
                        /\ ~PingFailure
    /\ startup \in {"pinged", "schema", "ready"} => pinged.ok = 1 /\ dbOpen
    /\ ran # {} => pinged.ok = 1
    /\ startup = "exhausted" => pinged.n = dbPingRetries /\ pinged.ok = 0
    /\ PingFailure =>
          /\ startup = "failed"
          /\ pinged.n = dbPingRetries /\ pinged.ok = 0
          /\ startRet[1].wraps = Some(pinged.last)
          /\ pinged.last \in PingErrors
          /\ ~dbOpen
          /\ ran = {}

(* every one of the dbPingRetries pings failed, the last with another
   error than an earlier one would wrap, and NewPostgresStore has returned *)
C29_Witness ==
    /\ PingFailure
    /\ pinged.n = dbPingRetries
    /\ startRet[1].wraps = Some("deadline")
    /\ ~dbOpen

(* the third ping succeeded and the store is ready *)
C29_WitnessSuccess ==
    /\ startup = "ready" /\ pinged = [n |-> 3, ok |-> 1, last |-> "ok"]
    /\ lastErr = Some("refused")


--------------------------------------------------------------------------
(* fromValue *)

(* the entry was written by the CreateTask call the step belongs to *)
WrittenByCreateTask(e) ==
    IF backend = "mem"
    THEN memRet'.op = "CreateTask"
    ELSE \E p \in Procs : e \in tx'[p].rows /\ tx'[p].op = "CreateTask"

(* C30: in either store fromValue is null exactly on creation entries and
   no entry records a non-change.  An entry with a null fromValue is a
   status entry and the first entry of its task; every other entry has a
   fromValue, and it differs from its toValue.  The entry a CreateTask
   writes is the only one the call writes, belongs to a task that did not
   exist before and has a null fromValue; every entry any other call
   writes has a fromValue that differs from its toValue. *)
C30_FromValueNullOnCreationOnly ==
    /\ [](\A e \in Recorded :
            IF e.FromValue = Nil
            THEN /\ e.Field = "status"
                 /\ \A o \in Recorded : o.TaskID = e.TaskID => o.ID >= e.ID
            ELSE e.FromValue[1] # e.ToValue)
    /\ [][\A e \in Recorded' \ Recorded :
            IF WrittenByCreateTask(e)
            THEN /\ e.FromValue = Nil
                 /\ e.Field = "status"
                 /\ e.TaskID \notin TaskIDs
                 /\ \A o \in Recorded' : o.TaskID = e.TaskID => o = e
            ELSE /\ e.FromValue # Nil
                 /\ e.FromValue[1] # e.ToValue
                 /\ e.TaskID \in TaskIDs
         ]_vars

(* the task a CreateTask made has its creation entry and, from a later
   UpdateTask, an entry with a fromValue, while a seeded task still has
   its seeded entry only *)
C30_Witness ==
    /\ backend = "pg"
    /\ \E a, b \in tblTaskHistory :
          /\ a.TaskID = 4 /\ a.FromValue = Nil
          /\ b.TaskID = 4 /\ b.FromValue # Nil /\ b.ID > a.ID
    /\ \A e \in tblTaskHistory : e.TaskID = 1 => e.FromValue = Nil

==========================================================================
